---- MODULE Spec2Model ----
(***************************************************************************)
(* Lightning payment path finding of electrum/lnrouter.py (LNPathFinder). *)
(*                                                                         *)
(* Node ids and short channel ids are byte strings in the program; here    *)
(* they are the integers those bytes denote (Python orders bytes           *)
(* lexicographically, which for equal lengths is the integer order).       *)
(* Costs are Python floats (lnrouter.py:185 divides with "/"); here a      *)
(* cost is the exact rational <<whole msat, billionths>>.                  *)
(***************************************************************************)
EXTENDS Integers, Sequences, FiniteSets, TLC

VARIABLES
    channel_db,           \* the gossip graph: channel infos and policies
    blacklist,            \* LNPathFinder.blacklist
    pc,                   \* position of the path finding thread
    nodeA, nodeB,         \* arguments of the running query
    invoice_amount_msat,
    my_channels,          \* scid -> msat the local channel can still send
    is_source,            \* is_source of the running get_distances
    beacon_call,          \* the running get_prev_nodes_to_beacons: key and beacons left
    cancel_requested,     \* the caller has asked for the running search to be cancelled
    distance_from_start,  \* get_distances locals
    prev_node,
    nodes_to_explore,
    cur,                  \* the tuple popped from nodes_to_explore
    todo,                 \* channels of the for loop not yet visited
    edge,                 \* edge handed to _edge_cost
    expanded,             \* the tuples the running search popped and expanded, in order
    path,                 \* result of find_path_for_payment
    route,                \* result of create_route_from_path
    last_path,            \* result of the previous identical query
    exc,                  \* exception that ended the call, if any
    writes,               \* channels or policies removed by the gossip writer
    block_hash_for_beacons,    \* LNPathFinder.block_hash_for_beacons
    beacons,                   \* LNPathFinder.beacons
    prev_nodes_to_beacons,     \* LNPathFinder.prev_nodes_to_beacons
    prev_nodes_from_beacons,   \* LNPathFinder.prev_nodes_from_beacons
    args,                 \* arguments of a function called on its own
    result,               \* what that call returned
    other                 \* a second find_path_for_payment call running on another thread

vars == <<channel_db, blacklist, pc, nodeA, nodeB, invoice_amount_msat, my_channels,
          is_source, beacon_call, cancel_requested,
          distance_from_start, prev_node, nodes_to_explore, cur, todo, edge, expanded,
          path, route, last_path, exc, writes,
          block_hash_for_beacons, beacons, prev_nodes_to_beacons, prev_nodes_from_beacons,
          args, result, other>>

-----------------------------------------------------------------------------
(* Bounds of the model *)

MaxBlacklist == 2
MaxBlacklistScid == 4
MaxWrites == 1

-----------------------------------------------------------------------------
(* Constants of the program *)

NUM_MAX_EDGES_IN_PAYMENT_PATH == 20
NBLOCK_CLTV_EXPIRY_TOO_FAR_INTO_FUTURE == 28 * 144
MIN_FINAL_CLTV_EXPIRY_FOR_INVOICE == 144 + 3

NoneInt == -1     \* Python None where an int is expected
NoNode == 0       \* nodeA=None of get_distances

-----------------------------------------------------------------------------
(* Costs: float('inf') and finite values *)

INF == <<-1, 0>>
Billion == 1000000000

IsInf(c) == c[1] < 0

\* mutant: integer arithmetic, the fraction of a msat is cut off
Cost_truncated(whole, nano) == <<whole + (nano \div Billion), 0>>

Cost(whole, nano) == <<whole + (nano \div Billion), nano % Billion>>

CostAdd(a, b) ==
    IF IsInf(a) \/ IsInf(b) THEN INF ELSE Cost(a[1] + b[1], a[2] + b[2])

CostLess(a, b) ==
    IF IsInf(a) THEN FALSE
    ELSE IF IsInf(b) THEN TRUE
    ELSE a[1] < b[1] \/ (a[1] = b[1] /\ a[2] < b[2])

CostLeq(a, b) == a = b \/ CostLess(a, b)

-----------------------------------------------------------------------------
(* lnrouter.py module level functions and RouteEdge *)

\* mutant: the proportional part is subtracted
fee_for_edge_msat_minus(forwarded_amount_msat, fee_base_msat, fee_proportional_millionths) ==
    fee_base_msat
      - ((forwarded_amount_msat * fee_proportional_millionths) \div 1000000)

\* mutant: the proportional fee is rounded up
fee_for_edge_msat_rounded_up(forwarded_amount_msat, fee_base_msat, fee_proportional_millionths) ==
    fee_base_msat
      + ((forwarded_amount_msat * fee_proportional_millionths + 999999) \div 1000000)

fee_for_edge_msat(forwarded_amount_msat, fee_base_msat, fee_proportional_millionths) ==
    fee_base_msat
      + ((forwarded_amount_msat * fee_proportional_millionths) \div 1000000)

\* mutant: a fee of exactly 5 sat is not let through by the first test
is_fee_sane_below(fee_msat, payment_amount_msat) ==
    IF fee_msat < 5000 THEN TRUE
    ELSE IF 100 * fee_msat <= payment_amount_msat THEN TRUE
    ELSE FALSE

is_fee_sane(fee_msat, payment_amount_msat) ==
    IF fee_msat <= 5000 THEN TRUE
    ELSE IF 100 * fee_msat <= payment_amount_msat THEN TRUE
    ELSE FALSE

\* ShortChannelID.normalize on 8 bytes: the same bytes as a ShortChannelID,
\* which compares and hashes as bytes.
ShortChannelID_normalize(data) == data

RouteEdge_from_channel_policy(channel_policy, short_channel_id, end_node) ==
    [node_id |-> end_node,
     short_channel_id |-> ShortChannelID_normalize(short_channel_id),
     fee_base_msat |-> channel_policy.fee_base_msat,
     fee_proportional_millionths |-> channel_policy.fee_proportional_millionths,
     cltv_expiry_delta |-> channel_policy.cltv_expiry_delta]

\* mutant: only the base fee is charged
RouteEdge_fee_for_edge_base_only(route_edge, amount_msat) ==
    fee_for_edge_msat(amount_msat, route_edge.fee_base_msat, 0)

RouteEdge_fee_for_edge(route_edge, amount_msat) ==
    fee_for_edge_msat(amount_msat, route_edge.fee_base_msat,
                      route_edge.fee_proportional_millionths)

\* mutant: the per-edge sanity check left out
RouteEdge_is_sane_to_use_skipped(route_edge, amount_msat) == TRUE

\* mutant: a time-lock of exactly two weeks is refused
RouteEdge_is_sane_to_use_below_two_weeks(route_edge, amount_msat) ==
    IF route_edge.cltv_expiry_delta >= 14 * 144 THEN FALSE
    ELSE IF ~is_fee_sane(RouteEdge_fee_for_edge(route_edge, amount_msat), amount_msat)
         THEN FALSE
    ELSE TRUE

RouteEdge_is_sane_to_use(route_edge, amount_msat) ==
    IF route_edge.cltv_expiry_delta > 14 * 144 THEN FALSE
    ELSE IF ~is_fee_sane(RouteEdge_fee_for_edge(route_edge, amount_msat), amount_msat)
         THEN FALSE
    ELSE TRUE

-----------------------------------------------------------------------------
(* ChannelDB as the path finder reads it (electrum/channel_db.py).          *)
(* channel_db.info: scid -> ChannelInfo, channel_db.policies:               *)
(* <<scid, publishing node>> -> Policy.                                     *)

Policy(base, ppm, cltv, hmin, hmax, dis) ==
    [fee_base_msat |-> base, fee_proportional_millionths |-> ppm,
     cltv_expiry_delta |-> cltv, htlc_minimum_msat |-> hmin,
     htlc_maximum_msat |-> hmax, disabled |-> dis]

has_channel_info(db, short_channel_id) == short_channel_id \in DOMAIN db.info

get_channel_info(db, short_channel_id) == db.info[short_channel_id]

has_policy_for_node(db, short_channel_id, node_id) ==
    <<short_channel_id, node_id>> \in DOMAIN db.policies

get_policy_for_node(db, short_channel_id, node_id) ==
    db.policies[<<short_channel_id, node_id>>]

RECURSIVE SortedSeq(_)
SortedSeq(S) ==
    IF S = {} THEN <<>>
    ELSE LET m == CHOOSE x \in S : \A y \in S : x <= y
         IN  <<m>> \o SortedSeq(S \ {m})

\* the channels of a node, in the order the for loop of get_distances visits them
get_channels_for_node(db, node_id) ==
    SortedSeq({c \in DOMAIN db.info :
                  db.info[c].node1_id = node_id \/ db.info[c].node2_id = node_id})

\* Channel.can_pay / Channel.can_receive of a local channel
can_pay(chan, amount_msat) == amount_msat <= chan.pay
can_receive(chan, amount_msat) == amount_msat <= chan.recv

remove_channel(db, short_channel_id) ==
    [info |-> [c \in DOMAIN db.info \ {short_channel_id} |-> db.info[c]],
     policies |-> [k \in {q \in DOMAIN db.policies : q[1] # short_channel_id}
                      |-> db.policies[k]],
     data_loaded |-> db.data_loaded]

remove_policy(db, key) ==
    [db EXCEPT !.policies = [k \in DOMAIN db.policies \ {key} |-> db.policies[k]]]

-----------------------------------------------------------------------------
(* LNPathFinder._edge_cost: <<heuristic cost, fee_for_edge_msat>> *)

base_cost == 500

\* mutant: the cost of an edge without the base cost of a hop
EdgeCostOfPolicy_without_base(channel_info, channel_policy, short_channel_id, end_node, payment_amt_msat, ignore_costs) ==
    LET route_edge == RouteEdge_from_channel_policy(channel_policy, short_channel_id, end_node)
        fee_msat == RouteEdge_fee_for_edge(route_edge, payment_amt_msat)
        cltv_cost == route_edge.cltv_expiry_delta * payment_amt_msat * 15
    IN  IF channel_policy.disabled THEN <<INF, 0>>
        ELSE IF payment_amt_msat < channel_policy.htlc_minimum_msat THEN <<INF, 0>>
        ELSE IF channel_info.capacity_sat # NoneInt
                /\ payment_amt_msat \div 1000 > channel_info.capacity_sat THEN <<INF, 0>>
        ELSE IF channel_policy.htlc_maximum_msat # NoneInt
                /\ payment_amt_msat > channel_policy.htlc_maximum_msat THEN <<INF, 0>>
        ELSE IF ~RouteEdge_is_sane_to_use(route_edge, payment_amt_msat) THEN <<INF, 0>>
        ELSE IF ignore_costs THEN <<Cost(0, 0), 0>>
        ELSE <<Cost(fee_msat, cltv_cost), fee_msat>>

EdgeCostOfPolicy(channel_info, channel_policy, short_channel_id, end_node, payment_amt_msat, ignore_costs) ==
    LET route_edge == RouteEdge_from_channel_policy(channel_policy, short_channel_id, end_node)
        fee_msat == RouteEdge_fee_for_edge(route_edge, payment_amt_msat)
        cltv_cost == route_edge.cltv_expiry_delta * payment_amt_msat * 15
    IN  IF channel_policy.disabled THEN <<INF, 0>>
        ELSE IF payment_amt_msat < channel_policy.htlc_minimum_msat THEN <<INF, 0>>
        ELSE IF channel_info.capacity_sat # NoneInt
                /\ payment_amt_msat \div 1000 > channel_info.capacity_sat THEN <<INF, 0>>
        ELSE IF channel_policy.htlc_maximum_msat # NoneInt
                /\ payment_amt_msat > channel_policy.htlc_maximum_msat THEN <<INF, 0>>
        ELSE IF ~RouteEdge_is_sane_to_use(route_edge, payment_amt_msat) THEN <<INF, 0>>
        ELSE IF ignore_costs THEN <<Cost(base_cost, 0), 0>>
        ELSE <<Cost(base_cost + fee_msat, cltv_cost), fee_msat>>

edge_cost(db, short_channel_id, start_node, end_node, payment_amt_msat, ignore_costs) ==
    IF ~has_channel_info(db, short_channel_id) THEN <<INF, 0>>
    ELSE IF ~has_policy_for_node(db, short_channel_id, start_node) THEN <<INF, 0>>
    ELSE EdgeCostOfPolicy(get_channel_info(db, short_channel_id),
                          get_policy_for_node(db, short_channel_id, start_node),
                          short_channel_id, end_node, payment_amt_msat, ignore_costs)

-----------------------------------------------------------------------------
(* get_distances: locals and the priority queue *)

Dist(d, n) == IF n \in DOMAIN d THEN d[n] ELSE INF

Put(f, k, v) == [x \in DOMAIN f \cup {k} |-> IF x = k THEN v ELSE f[x]]

\* mutant: the queue orders by the distance alone
TupleLess_by_distance(e, f) == CostLess(e[1], f[1])

\* Python's order of the tuples (dist, amount_msat, node) in queue.PriorityQueue
TupleLess(e, f) ==
    \/ CostLess(e[1], f[1])
    \/ e[1] = f[1] /\ e[2] < f[2]
    \/ e[1] = f[1] /\ e[2] = f[2] /\ e[3] < f[3]

\* nodes_to_explore.get() returns a least tuple of the queue
IsNext(e, q) == e \in q /\ \A f \in q : ~TupleLess(f, e)

\* mutant: the blacklist is not consulted
is_blacklisted_ignored(short_channel_id, bl) == FALSE

\* line 218
is_blacklisted(short_channel_id, bl) == short_channel_id \in bl

\* mutant: the start node of an edge is always the second node of its channel
edge_startnode_of_node2(channel_info, edge_endnode) == channel_info.node2_id

\* line 221
edge_startnode_of(channel_info, edge_endnode) ==
    IF channel_info.node1_id = edge_endnode
    THEN channel_info.node2_id
    ELSE channel_info.node1_id

\* mutant: an outgoing local channel is used without asking can_pay
local_channel_gate_unchecked(mine, edge_channel_id, edge_startnode, edge_endnode, a, amount_msat) ==
    IF edge_channel_id \notin DOMAIN mine THEN "pass"
    ELSE IF edge_startnode = a THEN "pass"
    ELSE IF edge_endnode # a THEN "AssertionError"
    ELSE IF ~can_receive(mine[edge_channel_id], amount_msat) THEN "continue"
    ELSE "pass"

\* lines 222-230: what the branch on is_mine does with the edge
local_channel_gate(mine, edge_channel_id, edge_startnode, edge_endnode, a, amount_msat) ==
    IF edge_channel_id \notin DOMAIN mine THEN "pass"
    ELSE IF edge_startnode = a
         THEN IF ~can_pay(mine[edge_channel_id], amount_msat) THEN "continue" ELSE "pass"
    ELSE IF edge_endnode # a THEN "AssertionError"
    ELSE IF ~can_receive(mine[edge_channel_id], amount_msat) THEN "continue"
    ELSE "pass"

\* mutant: the costs of the source's own channels are charged like any other
ignore_costs_of_never(a, edge_startnode) == FALSE

\* line 236
ignore_costs_of(a, edge_startnode) == IF a # NoNode THEN edge_startnode = a ELSE FALSE

\* lines 233-234: start_node and end_node handed to _edge_cost
cost_start_node(source, edge_startnode, edge_endnode) ==
    IF source THEN edge_startnode ELSE edge_endnode

cost_end_node(source, edge_startnode, edge_endnode) ==
    IF source THEN edge_endnode ELSE edge_startnode

\* mutant: the fee is not added to the amount the neighbour has to forward
amount_to_forward_msat_without_fee(amount_msat, fee_msat) == amount_msat

\* line 243
\* mutant: the fee is added twice
amount_to_forward_msat_fee_twice(amount_msat, fee_msat) == amount_msat + 2 * fee_msat

amount_to_forward_msat(amount_msat, fee_msat) == amount_msat + fee_msat

Empty == [x \in {} |-> 0]
NoHash == 0       \* block_hash_for_beacons = None
\* an attribute update_beacons has not assigned yet, and one it has
Unset == [is_set |-> FALSE, v |-> <<>>]
SetTo(v) == [is_set |-> TRUE, v |-> v]
\* no get_prev_nodes_to_beacons running
NoBeaconCall == [active |-> FALSE, key |-> 0, todo |-> <<>>]
\* no function called on its own yet
NoArgs == [fn |-> "none", ints |-> <<>>, route |-> <<>>]
NoTuple == <<INF, 0, NoNode>>
NoEdge == [scid |-> 0, startnode |-> NoNode, is_mine |-> FALSE]
NonePath == [is_none |-> TRUE, elems |-> <<>>]
SomePath(p) == [is_none |-> FALSE, elems |-> p]
\* no second call is running
NoOther == [pc |-> "idle", nodeA |-> NoNode, nodeB |-> NoNode, amount |-> 0,
            dist |-> Empty, prev |-> Empty, queue |-> {}, path |-> NonePath]

-----------------------------------------------------------------------------
(* LNPathFinder.get_path and create_route_from_path *)

\* mutant: the loop stops one edge before the target
RECURSIVE get_path_loop_short(_, _, _, _)
get_path_loop_short(edge_startnode, target, prev, fuel) ==
    IF edge_startnode = target THEN [end |-> "return", elems |-> <<>>]
    ELSE IF edge_startnode \notin DOMAIN prev THEN [end |-> "KeyError", elems |-> <<>>]
    ELSE IF fuel = 0 THEN [end |-> "loops", elems |-> <<>>]
    ELSE IF prev[edge_startnode][1] = target THEN [end |-> "return", elems |-> <<>>]
    ELSE LET rest == get_path_loop_short(prev[edge_startnode][1], target, prev, fuel - 1)
         IN  [end |-> rest.end, elems |-> <<prev[edge_startnode]>> \o rest.elems]

\* mutant: the path records the node an edge starts from
RECURSIVE get_path_loop_startnode(_, _, _, _)
get_path_loop_startnode(edge_startnode, target, prev, fuel) ==
    IF edge_startnode = target THEN [end |-> "return", elems |-> <<>>]
    ELSE IF edge_startnode \notin DOMAIN prev THEN [end |-> "KeyError", elems |-> <<>>]
    ELSE IF fuel = 0 THEN [end |-> "loops", elems |-> <<>>]
    ELSE LET rest == get_path_loop_startnode(prev[edge_startnode][1], target, prev, fuel - 1)
         IN  [end |-> rest.end,
              elems |-> <<<<edge_startnode, prev[edge_startnode][2]>>>> \o rest.elems]

\* the while loop of get_path; it ends with KeyError when a node has no entry
RECURSIVE get_path_loop(_, _, _, _)
get_path_loop(edge_startnode, target, prev, fuel) ==
    IF edge_startnode = target THEN [end |-> "return", elems |-> <<>>]
    ELSE IF edge_startnode \notin DOMAIN prev THEN [end |-> "KeyError", elems |-> <<>>]
    ELSE IF fuel = 0 THEN [end |-> "loops", elems |-> <<>>]
    ELSE LET rest == get_path_loop(prev[edge_startnode][1], target, prev, fuel - 1)
         IN  [end |-> rest.end, elems |-> <<prev[edge_startnode]>> \o rest.elems]

get_path(a, b, prev) ==
    IF a \notin DOMAIN prev THEN [end |-> "return", path |-> NonePath]
    ELSE LET w == get_path_loop(a, b, prev, Cardinality(DOMAIN prev))
         IN  [end |-> w.end, path |-> SomePath(w.elems)]

\* mutant: the policy is looked up for the node the edge ends at
RECURSIVE create_route_loop_endnode(_, _, _)
create_route_loop_endnode(db, p, prev_node_id) ==
    IF p = <<>> THEN [end |-> "return", route |-> <<>>, scid |-> 0]
    ELSE LET node_id == p[1][1]
             short_channel_id == p[1][2]
         IN  IF ~has_policy_for_node(db, short_channel_id, node_id)
             THEN [end |-> "NoChannelPolicy", route |-> <<>>, scid |-> short_channel_id]
             ELSE LET rest == create_route_loop_endnode(db, Tail(p), node_id)
                      e == RouteEdge_from_channel_policy(
                               get_policy_for_node(db, short_channel_id, node_id),
                               short_channel_id, node_id)
                  IN  IF rest.end = "return"
                      THEN [end |-> "return", route |-> <<e>> \o rest.route, scid |-> 0]
                      ELSE rest

\* mutant: an element without a policy is left out of the route
RECURSIVE create_route_loop_skipping(_, _, _)
create_route_loop_skipping(db, p, prev_node_id) ==
    IF p = <<>> THEN [end |-> "return", route |-> <<>>, scid |-> 0]
    ELSE LET node_id == p[1][1]
             short_channel_id == p[1][2]
             rest == create_route_loop_skipping(db, Tail(p), node_id)
         IN  IF ~has_policy_for_node(db, short_channel_id, prev_node_id) THEN rest
             ELSE LET e == RouteEdge_from_channel_policy(
                               get_policy_for_node(db, short_channel_id, prev_node_id),
                               short_channel_id, node_id)
                  IN  IF rest.end = "return"
                      THEN [end |-> "return", route |-> <<e>> \o rest.route, scid |-> 0]
                      ELSE rest

\* the for loop of create_route_from_path; NoChannelPolicy when a policy is missing
RECURSIVE create_route_loop(_, _, _)
create_route_loop(db, p, prev_node_id) ==
    IF p = <<>> THEN [end |-> "return", route |-> <<>>, scid |-> 0]
    ELSE LET node_id == p[1][1]
             short_channel_id == p[1][2]
         IN  IF ~has_policy_for_node(db, short_channel_id, prev_node_id)
             THEN [end |-> "NoChannelPolicy", route |-> <<>>, scid |-> short_channel_id]
             ELSE LET rest == create_route_loop(db, Tail(p), node_id)
                      e == RouteEdge_from_channel_policy(
                               get_policy_for_node(db, short_channel_id, prev_node_id),
                               short_channel_id, node_id)
                  IN  IF rest.end = "return"
                      THEN [end |-> "return", route |-> <<e>> \o rest.route, scid |-> 0]
                      ELSE rest

create_route_from_path(db, p, from_node_id) ==
    IF p.is_none THEN [end |-> "Exception", route |-> <<>>, scid |-> 0]
    ELSE create_route_loop(db, p.elems, from_node_id)

\* mutant: the loop runs over reversed(route), the first edge included
RECURSIVE sane_loop_from_first(_, _, _, _)
sane_loop_from_first(r, i, amt, cltv) ==
    IF i < 1 THEN [ok |-> TRUE, amt |-> amt, cltv |-> cltv]
    ELSE IF ~RouteEdge_is_sane_to_use(r[i], amt) THEN [ok |-> FALSE, amt |-> amt, cltv |-> cltv]
    ELSE sane_loop_from_first(r, i - 1, amt + RouteEdge_fee_for_edge(r[i], amt),
                              cltv + r[i].cltv_expiry_delta)

\* is_route_sane_to_use: the loop over reversed(route[1:]), from edge i down to 2
RECURSIVE sane_loop(_, _, _, _)
sane_loop(r, i, amt, cltv) ==
    IF i < 2 THEN [ok |-> TRUE, amt |-> amt, cltv |-> cltv]
    ELSE IF ~RouteEdge_is_sane_to_use(r[i], amt) THEN [ok |-> FALSE, amt |-> amt, cltv |-> cltv]
    ELSE sane_loop(r, i - 1, amt + RouteEdge_fee_for_edge(r[i], amt),
                   cltv + r[i].cltv_expiry_delta)

\* the local total_fee of is_route_sane_to_use (line 110)
route_total_fee(r, amount_msat, min_final_cltv_expiry) ==
    sane_loop(r, Len(r), amount_msat, min_final_cltv_expiry).amt - amount_msat

is_route_sane_to_use(r, amount_msat, min_final_cltv_expiry) ==
    IF Len(r) > NUM_MAX_EDGES_IN_PAYMENT_PATH THEN FALSE
    ELSE LET w == sane_loop(r, Len(r), amount_msat, min_final_cltv_expiry)
             total_fee == w.amt - amount_msat
         IN  IF ~w.ok THEN FALSE
             ELSE IF w.cltv > NBLOCK_CLTV_EXPIRY_TOO_FAR_INTO_FUTURE THEN FALSE
             ELSE IF ~is_fee_sane(total_fee, amount_msat) THEN FALSE
             ELSE TRUE

-----------------------------------------------------------------------------
(* The graphs and queries the model draws from *)

PZero == Policy(0, 0, 40, 0, NoneInt, FALSE)
PFee == Policy(1000, 100, 40, 0, NoneInt, FALSE)
PBase499 == Policy(499, 0, 40, 0, NoneInt, FALSE)
PPpm == Policy(0, 5000, 40, 0, NoneInt, FALSE)
PBase5000 == Policy(5000, 0, 40, 0, NoneInt, FALSE)
PBase6000 == Policy(6000, 0, 40, 0, NoneInt, FALSE)
PCltvMax == Policy(0, 0, 14 * 144, 0, NoneInt, FALSE)
PCltvOver == Policy(0, 0, 14 * 144 + 1, 0, NoneInt, FALSE)
PDisabled == Policy(0, 0, 40, 0, NoneInt, TRUE)
PHtlcMax == Policy(1000, 0, 40, 0, 1000, FALSE)
PHtlcMin == Policy(0, 0, 40, 2000, NoneInt, FALSE)
PNearInsane == Policy(4990, 5000, 40, 0, NoneInt, FALSE)

\* a channel n1 - n2 (n1 < n2); p1 and p2 are <<>> or <<the policy n1 (n2) published>>
Chan(scid, n1, n2, cap, p1, p2) ==
    [scid |-> scid, node1_id |-> n1, node2_id |-> n2, capacity_sat |-> cap,
     p1 |-> p1, p2 |-> p2]

Both(scid, n1, n2, pol) == Chan(scid, n1, n2, NoneInt, <<pol>>, <<pol>>)

Graph(chans) ==
    [info |-> [c \in {x.scid : x \in chans} |->
                 LET x == CHOOSE y \in chans : y.scid = c
                 IN  [node1_id |-> x.node1_id, node2_id |-> x.node2_id,
                      capacity_sat |-> x.capacity_sat]],
     policies |-> [k \in UNION {({<<x.scid, x.node1_id>>} \cap {q \in {<<x.scid, x.node1_id>>} : x.p1 # <<>>})
                                 \cup ({<<x.scid, x.node2_id>>} \cap {q \in {<<x.scid, x.node2_id>>} : x.p2 # <<>>})
                                 : x \in chans}
                      |-> LET x == CHOOSE y \in chans : y.scid = k[1]
                          IN  IF k[2] = x.node1_id THEN x.p1[1] ELSE x.p2[1]],
     data_loaded |-> TRUE]

\* a line 1 - 2 - ... - (n + 1) of n channels with the same policy both ways
LineGraph(n, cap, pol) ==
    Graph({Chan(i, i, i + 1, cap, <<pol>>, <<pol>>) : i \in 1..n})

\* two routes 1 - 2 - 4 and 1 - 3 - 4, with or without a channel 2 - 3 across
DiamondGraph(pD, pX, pXD, cross) ==
    Graph({Both(1, 1, 2, PZero), Both(2, 2, 4, pD)} \cup pX
          \cup {Both(4, 3, 4, pXD)} \cup cross)

\* 1 - 2 - 3, then 3 - 5 directly and 3 - 4 - 5
TailGraph(p23, p35) ==
    Graph({Both(1, 1, 2, PZero), Both(2, 2, 3, p23), Both(3, 3, 5, p35),
           Both(4, 3, 4, PZero), Both(5, 4, 5, PZero)})

LinePolicies == {PZero, PFee, PBase5000, PBase6000, PCltvMax, PCltvOver,
                 PDisabled, PHtlcMax, PHtlcMin, PNearInsane}

ShortLines ==
    {LineGraph(n, NoneInt, pol) : n \in 1..3, pol \in LinePolicies}
    \cup {LineGraph(n, 10, PZero) : n \in 1..2}

LongLines == {LineGraph(NUM_MAX_EDGES_IN_PAYMENT_PATH + 1, NoneInt, PZero)}

Diamonds ==
    {DiamondGraph(pD, pX, pXD, cross) :
        cross \in {{}, {Both(5, 2, 3, PZero)}},
        pD \in {PZero, PFee},
        pX \in {{Both(3, 1, 3, PZero)}, {Both(3, 1, 3, PDisabled)},
                {Chan(3, 1, 3, NoneInt, <<>>, <<PZero>>)}},
        pXD \in {PZero, PFee, PBase499}}

Tails == {TailGraph(p23, p35) : p23 \in {PZero, PPpm}, p35 \in {PZero, PBase499}}

Graphs == ShortLines \cup LongLines \cup Diamonds \cup Tails

Amounts == {1000, 50000}

NodesOf(db) == UNION {{db.info[c].node1_id, db.info[c].node2_id} : c \in DOMAIN db.info}

LastNode(db) == CHOOSE n \in NodesOf(db) : \A m \in NodesOf(db) : m <= n

\* the local channel views of a caller a: none, or its first channel with 1000 msat to send
MyChannelViews(db, a) ==
    LET mine == get_channels_for_node(db, a)
    IN  {Empty} \cup (IF mine = <<>> THEN {}
                      ELSE {[c \in {mine[1]} |-> [pay |-> 1000, recv |-> 1000]]})

-----------------------------------------------------------------------------
(* State machine *)

\* LNPathFinder.__init__: the state of a new path finder, whatever the graph
Constructed ==
    /\ blacklist = {}
    /\ pc = "idle"
    /\ nodeA = NoNode
    /\ nodeB = NoNode
    /\ invoice_amount_msat = 0
    /\ my_channels = Empty
    /\ is_source = TRUE
    /\ beacon_call = NoBeaconCall
    /\ cancel_requested = FALSE
    /\ distance_from_start = Empty
    /\ prev_node = Empty
    /\ nodes_to_explore = {}
    /\ cur = NoTuple
    /\ todo = <<>>
    /\ edge = NoEdge
    /\ expanded = <<>>
    /\ path = NonePath
    /\ route = <<>>
    /\ last_path = <<>>
    /\ exc = "none"
    /\ writes = 0
    /\ block_hash_for_beacons = NoHash
    /\ beacons = Unset
    /\ prev_nodes_to_beacons = Unset
    /\ prev_nodes_from_beacons = Unset
    /\ args = NoArgs
    /\ result = <<>>
    /\ other = NoOther

Init == channel_db \in Graphs /\ Constructed

search == <<distance_from_start, prev_node, nodes_to_explore, cur, todo, edge, expanded>>
beacon_state == <<block_hash_for_beacons, beacons, prev_nodes_to_beacons, prev_nodes_from_beacons>>
call == <<args, result, other>>
query == <<nodeA, nodeB, invoice_amount_msat, my_channels, is_source, beacon_call,
           cancel_requested>>

\* LNPathFinder.add_to_blacklist
add_to_blacklist(short_channel_id) ==
    /\ pc = "idle"
    /\ Cardinality(blacklist) < MaxBlacklist
    /\ short_channel_id \notin blacklist
    /\ blacklist' = blacklist \cup {short_channel_id}
    /\ UNCHANGED <<channel_db, pc, query, search, path, route, last_path, exc, writes, beacon_state, call>>

\* get_distances up to the main loop (lines 200-204)
StartSearch ==
    /\ distance_from_start' = [n \in {nodeB'} |-> Cost(0, 0)]
    /\ prev_node' = Empty
    /\ nodes_to_explore' = {<<Cost(0, 0), invoice_amount_msat', nodeB'>>}
    /\ cur' = NoTuple
    /\ todo' = <<>>
    /\ edge' = NoEdge
    /\ expanded' = <<>>
    /\ pc' = "while"

\* find_path_for_payment is called
find_path_for_payment(a, b, amount, mine) ==
    /\ pc = "idle"
    /\ nodeA' = a
    /\ nodeB' = b
    /\ invoice_amount_msat' = amount
    /\ my_channels' = mine
    /\ is_source' = TRUE
    /\ beacon_call' = NoBeaconCall
    /\ cancel_requested' = FALSE
    /\ StartSearch
    /\ path' = NonePath
    /\ route' = <<>>
    /\ last_path' = <<>>
    /\ exc' = "none"
    /\ UNCHANGED <<channel_db, blacklist, writes, beacon_state, call>>

\* the same query once more, on the finder as it is
find_path_again ==
    /\ pc = "done"
    /\ last_path = <<>>
    /\ UNCHANGED query
    /\ StartSearch
    /\ last_path' = <<path>>
    /\ path' = NonePath
    /\ UNCHANGED <<channel_db, blacklist, route, exc, writes, beacon_state, call>>

\* line 207: the queue is empty, get_distances returns prev_node
LoopExit ==
    /\ pc = "while"
    /\ nodes_to_explore = {}
    /\ pc' = "returned"
    /\ UNCHANGED <<channel_db, blacklist, query, search, path, route, last_path, exc, writes, beacon_state, call>>

\* mutant: the loop is never left at the pop of the source
is_source_popped_never(a, e) == FALSE

\* line 209: nodeA and edge_endnode == nodeA
is_source_popped(a, e) == a # NoNode /\ e[3] = a

\* mutant: no popped entry is taken for a duplicate
is_stale_never(e, d) == FALSE

\* line 211: the popped distance is not the node's distance any more
is_stale(e, d) == e[1] # Dist(d, e[3])

\* mutant: the entry is read and left in the queue
Pop_leaving_entry(e) ==
    /\ pc = "while"
    /\ IsNext(e, nodes_to_explore)
    /\ nodes_to_explore' = nodes_to_explore
    /\ cur' = e
    /\ IF is_source_popped(nodeA, e)
       THEN pc' = "returned" /\ todo' = <<>>
       ELSE IF is_stale(e, distance_from_start)
       THEN pc' = "while" /\ todo' = <<>>
       ELSE pc' = "for" /\ todo' = get_channels_for_node(channel_db, e[3])
    /\ expanded' = IF pc' = "for" /\ \A i \in DOMAIN expanded : expanded[i] # e
                   THEN Append(expanded, e) ELSE expanded
    /\ UNCHANGED <<channel_db, blacklist, query, distance_from_start, prev_node, edge,
                   path, route, last_path, exc, writes, beacon_state, call>>

\* lines 208-216: one pop of the queue
Pop(e) ==
    /\ pc = "while"
    /\ IsNext(e, nodes_to_explore)
    /\ nodes_to_explore' = nodes_to_explore \ {e}
    /\ cur' = e
    /\ IF is_source_popped(nodeA, e)
       THEN pc' = "returned" /\ todo' = <<>>
       ELSE IF is_stale(e, distance_from_start)
       THEN pc' = "while" /\ todo' = <<>>
       ELSE pc' = "for" /\ todo' = get_channels_for_node(channel_db, e[3])
    /\ expanded' = IF pc' = "for" THEN Append(expanded, e) ELSE expanded
    /\ UNCHANGED <<channel_db, blacklist, query, distance_from_start, prev_node, edge,
                   path, route, last_path, exc, writes, beacon_state, call>>

\* the for loop is exhausted
ForEnd ==
    /\ pc = "for"
    /\ todo = <<>>
    /\ pc' = "while"
    /\ UNCHANGED <<channel_db, blacklist, query, search, path, route, last_path, exc, writes, beacon_state, call>>

\* lines 217-230 for the next channel of the loop
ForHead ==
    /\ pc = "for"
    /\ todo # <<>>
    /\ LET edge_channel_id == Head(todo)
           edge_endnode == cur[3]
           amount_msat == cur[2]
       IN  /\ todo' = Tail(todo)
           /\ IF is_blacklisted(edge_channel_id, blacklist)
              THEN pc' = "for" /\ edge' = edge /\ exc' = exc
              ELSE IF ~has_channel_info(channel_db, edge_channel_id)
              THEN pc' = "raised" /\ edge' = edge /\ exc' = "AttributeError"
              ELSE LET channel_info == get_channel_info(channel_db, edge_channel_id)
                       edge_startnode == edge_startnode_of(channel_info, edge_endnode)
                       is_mine == edge_channel_id \in DOMAIN my_channels
                       gate == local_channel_gate(my_channels, edge_channel_id, edge_startnode,
                                                  edge_endnode, nodeA, amount_msat)
                   IN  IF gate = "continue"
                       THEN pc' = "for" /\ edge' = edge /\ exc' = exc
                       ELSE IF gate = "AssertionError"
                       THEN pc' = "raised" /\ edge' = edge /\ exc' = "AssertionError"
                       ELSE /\ pc' = "edge"
                            /\ edge' = [scid |-> edge_channel_id,
                                        startnode |-> edge_startnode,
                                        is_mine |-> is_mine]
                            /\ exc' = exc
    /\ UNCHANGED <<channel_db, blacklist, query, distance_from_start, prev_node,
                   nodes_to_explore, cur, expanded, path, route, last_path, writes, beacon_state, call>>

\* mutant: a node at distance 0 is relaxed as well
lowers_distance_or_root(alt_dist_to_neighbour, d, edge_startnode) ==
    \/ CostLess(alt_dist_to_neighbour, Dist(d, edge_startnode))
    \/ Dist(d, edge_startnode) = Cost(0, 0)

\* line 240: alt_dist_to_neighbour < distance_from_start[edge_startnode]
lowers_distance(alt_dist_to_neighbour, d, edge_startnode) ==
    CostLess(alt_dist_to_neighbour, Dist(d, edge_startnode))

\* lines 231-244: _edge_cost and the relaxation
ForEdge ==
    /\ pc = "edge"
    /\ LET edge_endnode == cur[3]
           amount_msat == cur[2]
           ec == edge_cost(channel_db, edge.scid,
                           cost_start_node(is_source, edge.startnode, edge_endnode),
                           cost_end_node(is_source, edge.startnode, edge_endnode),
                           amount_msat, ignore_costs_of(nodeA, edge.startnode))
           alt_dist_to_neighbour == CostAdd(Dist(distance_from_start, edge_endnode), ec[1])
       IN  IF lowers_distance(alt_dist_to_neighbour, distance_from_start, edge.startnode)
           THEN /\ distance_from_start' =
                       Put(distance_from_start, edge.startnode, alt_dist_to_neighbour)
                /\ prev_node' = Put(prev_node, edge.startnode, <<edge_endnode, edge.scid>>)
                /\ nodes_to_explore' = nodes_to_explore
                       \cup {<<alt_dist_to_neighbour,
                                 amount_to_forward_msat(amount_msat, ec[2]), edge.startnode>>}
           ELSE UNCHANGED <<distance_from_start, prev_node, nodes_to_explore>>
    /\ pc' = "for"
    /\ edge' = NoEdge
    /\ UNCHANGED <<channel_db, blacklist, query, cur, todo, expanded, path, route, last_path, exc,
                   writes, beacon_state, call>>

\* find_path_for_payment line 266: get_path on the map get_distances returned
GetPath ==
    /\ pc = "returned"
    /\ ~beacon_call.active
    /\ LET r == get_path(nodeA, nodeB, prev_node)
       IN  /\ path' = r.path
           /\ exc' = IF r.end = "return" THEN exc ELSE r.end
           /\ pc' = IF r.end = "return" THEN "done" ELSE "raised"
    /\ distance_from_start' = Empty
    /\ prev_node' = Empty
    /\ nodes_to_explore' = {}
    /\ cur' = NoTuple
    /\ todo' = <<>>
    /\ edge' = NoEdge
    /\ expanded' = <<>>
    /\ UNCHANGED <<channel_db, blacklist, query, route, last_path, writes, beacon_state, call>>

\* mutant: create_route_from_path throws the cached predecessor maps away
CreateRoute_dropping_caches ==
    /\ pc = "done"
    /\ LET r == create_route_from_path(channel_db, path, nodeA)
       IN  /\ route' = r.route
           /\ exc' = IF r.end = "return" THEN exc ELSE r.end
           /\ pc' = IF r.end = "return" THEN "routed" ELSE "raised"
    /\ prev_nodes_to_beacons' = SetTo(Empty)
    /\ UNCHANGED <<channel_db, blacklist, query, search, path, last_path, writes,
                   block_hash_for_beacons, beacons, prev_nodes_from_beacons, call>>

\* the caller turns the path into a route
CreateRoute ==
    /\ pc = "done"
    /\ LET r == create_route_from_path(channel_db, path, nodeA)
       IN  /\ route' = r.route
           /\ exc' = IF r.end = "return" THEN exc ELSE r.end
           /\ pc' = IF r.end = "return" THEN "routed" ELSE "raised"
    /\ UNCHANGED <<channel_db, blacklist, query, search, path, last_path, writes, beacon_state, call>>

\* the caller is done with the result (or the exception)
Finish ==
    /\ pc \in {"routed", "raised", "beacons_done", "updated", "paths_done"}
    /\ pc' = "idle"
    /\ nodeA' = NoNode
    /\ nodeB' = NoNode
    /\ invoice_amount_msat' = 0
    /\ my_channels' = Empty
    /\ is_source' = TRUE
    /\ beacon_call' = NoBeaconCall
    /\ cancel_requested' = FALSE
    /\ distance_from_start' = Empty
    /\ prev_node' = Empty
    /\ nodes_to_explore' = {}
    /\ cur' = NoTuple
    /\ todo' = <<>>
    /\ edge' = NoEdge
    /\ expanded' = <<>>
    /\ path' = NonePath
    /\ route' = <<>>
    /\ last_path' = <<>>
    /\ exc' = "none"
    /\ args' = NoArgs
    /\ result' = <<>>
    /\ UNCHANGED <<channel_db, blacklist, writes, beacon_state, other>>

\* the gossip thread removes a channel with its policies (ChannelDB.remove_channel)
gossip_remove_channel(short_channel_id) ==
    /\ writes < MaxWrites
    /\ short_channel_id \in DOMAIN channel_db.info
    /\ channel_db' = remove_channel(channel_db, short_channel_id)
    /\ writes' = writes + 1
    /\ UNCHANGED <<blacklist, pc, query, search, path, route, last_path, exc, beacon_state, call>>

\* the gossip thread drops one policy of a channel
gossip_remove_policy(key) ==
    /\ writes < MaxWrites
    /\ key \in DOMAIN channel_db.policies
    /\ channel_db' = remove_policy(channel_db, key)
    /\ writes' = writes + 1
    /\ UNCHANGED <<blacklist, pc, query, search, path, route, last_path, exc, beacon_state, call>>

Next ==
    \/ \E c \in 1..MaxBlacklistScid : c \in DOMAIN channel_db.info /\ add_to_blacklist(c)
    \/ \E a, b \in {1, LastNode(channel_db)}, amount \in Amounts :
          \E mine \in MyChannelViews(channel_db, a) :
             find_path_for_payment(a, b, amount, mine)
    \/ find_path_again
    \/ LoopExit
    \/ \E e \in nodes_to_explore : Pop(e)
    \/ ForEnd
    \/ ForHead
    \/ ForEdge
    \/ GetPath
    \/ CreateRoute
    \/ Finish

Spec == Init /\ [][Next]_vars

\* the caller asks for the running search to be cancelled; get_distances takes
\* no token and reads no flag, so nothing in the finder looks at the request
request_cancellation ==
    /\ pc \in {"while", "for", "edge"}
    /\ ~cancel_requested
    /\ cancel_requested' = TRUE
    /\ UNCHANGED <<channel_db, blacklist, pc, nodeA, nodeB, invoice_amount_msat, my_channels,
                   is_source, beacon_call, search, path, route, last_path, exc, writes,
                   beacon_state, call>>

CancelGraphs == {LineGraph(2, NoneInt, PZero), TailGraph(PZero, PBase499)}

CancelInit == channel_db \in CancelGraphs /\ Constructed

CancelNext ==
    \/ Next
    \/ request_cancellation

SpecCancel == CancelInit /\ [][CancelNext]_vars

\* lines 200-204: the locals of a call of get_distances
fresh_search(a, b, amount) ==
    [pc |-> "while", nodeA |-> a, nodeB |-> b, amount |-> amount,
     dist |-> [n \in {b} |-> Cost(0, 0)], prev |-> Empty,
     queue |-> {<<Cost(0, 0), amount, b>>}, path |-> NonePath]

\* lines 217-244 for the channels of the popped node, on the locals s of a call
RECURSIVE relax_all(_, _, _, _, _)
relax_all(db, bl, e, chans, s) ==
    IF chans = <<>> THEN s
    ELSE IF is_blacklisted(Head(chans), bl) THEN relax_all(db, bl, e, Tail(chans), s)
    ELSE LET edge_startnode == edge_startnode_of(get_channel_info(db, Head(chans)), e[3])
             ec == edge_cost(db, Head(chans), edge_startnode, e[3], e[2],
                             ignore_costs_of(s.nodeA, edge_startnode))
             alt_dist_to_neighbour == CostAdd(Dist(s.dist, e[3]), ec[1])
         IN  IF CostLess(alt_dist_to_neighbour, Dist(s.dist, edge_startnode))
             THEN relax_all(db, bl, e, Tail(chans),
                      [s EXCEPT !.dist = Put(@, edge_startnode, alt_dist_to_neighbour),
                                !.prev = Put(@, edge_startnode, <<e[3], Head(chans)>>),
                                !.queue = @ \cup {<<alt_dist_to_neighbour,
                                                    amount_to_forward_msat(e[2], ec[2]),
                                                    edge_startnode>>}])
             ELSE relax_all(db, bl, e, Tail(chans), s)

\* line 266: get_distances has returned, get_path backtracks
search_returns(s) ==
    [s EXCEPT !.pc = "done", !.path = get_path(s.nodeA, s.nodeB, s.prev).path]

\* one turn of the while loop (lines 207-244) on the locals s of a call without
\* local channels
while_turn(db, bl, s) ==
    IF s.queue = {} THEN search_returns(s)
    ELSE LET e == CHOOSE x \in s.queue : IsNext(x, s.queue)
             popped == [s EXCEPT !.queue = @ \ {e}]
         IN  IF e[3] = s.nodeA THEN search_returns(popped)
             ELSE IF e[1] # Dist(s.dist, e[3]) THEN popped
             ELSE relax_all(db, bl, e, get_channels_for_node(db, e[3]), popped)

\* find_path_for_payment run from the call to the return with nothing in between
RECURSIVE run_alone(_, _, _)
run_alone(db, bl, s) ==
    IF s.pc = "done" THEN s ELSE run_alone(db, bl, while_turn(db, bl, s))

\* the caller calls clear_blacklist: LNPathFinder defines __init__,
\* add_to_blacklist and the path-finding methods and no clear_blacklist, so the
\* attribute lookup raises AttributeError, which the caller is given at once;
\* self.blacklist is written by add_to_blacklist only (line 141)
clear_blacklist ==
    /\ pc = "idle"
    /\ args = NoArgs
    /\ args' = [fn |-> "clear_blacklist", ints |-> <<>>, route |-> <<>>]
    /\ result' = <<"AttributeError">>
    /\ UNCHANGED <<channel_db, blacklist, pc, query, search, path, route, last_path, exc, writes,
                   beacon_state, other>>

ClearGraphs ==
    {DiamondGraph(PFee, {Both(3, 1, 3, PZero)}, PZero, {Both(5, 2, 3, PZero)}),
     LineGraph(2, NoneInt, PFee)}

ClearInit == channel_db \in ClearGraphs /\ Constructed

\* add_to_blacklist calls, then clear_blacklist, then queries
ClearNext ==
    \/ \E c \in 1..MaxBlacklistScid :
          c \in DOMAIN channel_db.info /\ args = NoArgs /\ add_to_blacklist(c)
    \/ clear_blacklist
    \/ \E a, b \in {1, LastNode(channel_db)}, amount \in Amounts :
          find_path_for_payment(a, b, amount, Empty)
    \/ LoopExit
    \/ \E e \in nodes_to_explore : Pop(e)
    \/ ForEnd
    \/ ForHead
    \/ ForEdge
    \/ GetPath
    \/ CreateRoute
    \/ Finish

SpecClear == ClearInit /\ [][ClearNext]_vars

\* mutant: distance_from_start is an attribute of the finder, set anew by each call
other_find_path_for_payment_sharing(a, b, amount) ==
    /\ other.pc = "idle"
    /\ other' = fresh_search(a, b, amount)
    /\ distance_from_start' = [n \in {b} |-> Cost(0, 0)]
    /\ UNCHANGED <<channel_db, blacklist, pc, query, prev_node, nodes_to_explore, cur, todo,
                   edge, expanded, path, route, last_path, exc, writes, beacon_state, args, result>>

\* a second thread calls find_path_for_payment on the same finder
other_find_path_for_payment(a, b, amount) ==
    /\ other.pc = "idle"
    /\ other' = fresh_search(a, b, amount)
    /\ UNCHANGED <<channel_db, blacklist, pc, query, search, path, route, last_path, exc,
                   writes, beacon_state, args, result>>

\* the second thread runs one turn of its while loop
other_while_turn ==
    /\ other.pc = "while"
    /\ other' = while_turn(channel_db, blacklist, other)
    /\ UNCHANGED <<channel_db, blacklist, pc, query, search, path, route, last_path, exc,
                   writes, beacon_state, args, result>>

\* the caller on the second thread is done with its path
other_finish ==
    /\ other.pc = "done"
    /\ other' = NoOther
    /\ UNCHANGED <<channel_db, blacklist, pc, query, search, path, route, last_path, exc,
                   writes, beacon_state, args, result>>

ConcurrentGraphs ==
    {DiamondGraph(PFee, {Both(3, 1, 3, PZero)}, PZero, {Both(5, 2, 3, PZero)}),
     LineGraph(2, NoneInt, PFee),
     Graph({Both(1, 1, 2, PFee), Both(2, 2, 3, PDisabled)})}

ConcurrentInit == channel_db \in ConcurrentGraphs /\ Constructed

ConcurrentNext ==
    \/ \E a, b \in {1, LastNode(channel_db)} : find_path_for_payment(a, b, 1000, Empty)
    \/ LoopExit
    \/ \E e \in nodes_to_explore : Pop(e)
    \/ ForEnd
    \/ ForHead
    \/ ForEdge
    \/ GetPath
    \/ CreateRoute
    \/ Finish
    \/ \E a, b \in {1, LastNode(channel_db)} : other_find_path_for_payment(a, b, 50000)
    \/ other_while_turn
    \/ other_finish

SpecConcurrent == ConcurrentInit /\ [][ConcurrentNext]_vars

\* the path finder with the gossip thread writing to the graph it reads
RaceGraphs == {LineGraph(2, NoneInt, PZero), TailGraph(PZero, PBase499)}

RaceInit == Init /\ channel_db \in RaceGraphs

RaceNext ==
    \/ Next
    \/ \E c \in DOMAIN channel_db.info : gossip_remove_channel(c)
    \/ \E k \in DOMAIN channel_db.policies : gossip_remove_policy(k)

SpecRace == RaceInit /\ [][RaceNext]_vars

-----------------------------------------------------------------------------
(* Beacons: update_beacons and get_prev_nodes_to_beacons *)

NumBeacons == 20

\* sha256 of a block hash as an integer (electrum/crypto.py); any fixed map will do
sha256_int(block_hash) == IF block_hash = 1 THEN 21 ELSE 10

\* str(bin(a ^ b)).count('1')
RECURSIVE bits_differing(_, _)
bits_differing(a, b) ==
    IF a = 0 /\ b = 0 THEN 0
    ELSE (IF a % 2 # b % 2 THEN 1 ELSE 0) + bits_differing(a \div 2, b \div 2)

PairLess(x, y) == x[1] < y[1] \/ (x[1] = y[1] /\ x[2] < y[2])

\* l.sort() on a list of (dist, node_id)
RECURSIVE SortedPairs(_)
SortedPairs(S) ==
    IF S = {} THEN <<>>
    ELSE LET m == CHOOSE x \in S : \A y \in S : x = y \/ PairLess(x, y)
         IN  <<m>> \o SortedPairs(S \ {m})

\* channel_db._nodes.keys()
known_nodes(db) == NodesOf(db)

\* mutant: the nodes are taken in the order of their ids
select_beacons_by_id(nodes, b) ==
    LET l == SortedPairs({<<0, node_id>> : node_id \in nodes})
        n == IF Len(l) < NumBeacons THEN Len(l) ELSE NumBeacons
    IN  [i \in 1..n |-> l[i][2]]

select_beacons(nodes, b) ==
    LET l == SortedPairs({<<bits_differing(node_id, b), node_id>> : node_id \in nodes})
        n == IF Len(l) < NumBeacons THEN Len(l) ELSE NumBeacons
    IN  [i \in 1..n |-> l[i][2]]

\* int(pow(10, math.ceil(math.log(amount_sat, 10)))) for amount_sat >= 1
RECURSIVE power_of_ten_from(_, _)
power_of_ten_from(p, amount_sat) ==
    IF p >= amount_sat THEN p ELSE power_of_ten_from(10 * p, amount_sat)

quantize_amount(amount_sat) == power_of_ten_from(1, amount_sat)

BlockHashes == {1, 2}
BeaconAmounts == {1, 5, 10}

\* mutant: a new block hash selects new beacons and keeps the cached maps
update_beacons_keeping_caches(block_hash) ==
    /\ pc = "idle"
    /\ IF block_hash_for_beacons = block_hash
       THEN UNCHANGED beacon_state
       ELSE /\ block_hash_for_beacons' = block_hash
            /\ beacons' = SetTo(select_beacons(known_nodes(channel_db), sha256_int(block_hash)))
            /\ prev_nodes_to_beacons' =
                   IF prev_nodes_to_beacons.is_set THEN prev_nodes_to_beacons ELSE SetTo(Empty)
            /\ prev_nodes_from_beacons' =
                   IF prev_nodes_from_beacons.is_set THEN prev_nodes_from_beacons
                   ELSE SetTo(Empty)
    /\ pc' = "updated"
    /\ UNCHANGED <<channel_db, blacklist, query, search, path, route, last_path, exc,
                   writes, call>>

\* mutant: update_beacons without the test of line 302
update_beacons_unconditional(block_hash) ==
    /\ pc = "idle"
    /\ block_hash_for_beacons' = block_hash
    /\ beacons' = SetTo(select_beacons(known_nodes(channel_db), sha256_int(block_hash)))
    /\ prev_nodes_to_beacons' = SetTo(Empty)
    /\ prev_nodes_from_beacons' = SetTo(Empty)
    /\ pc' = "updated"
    /\ UNCHANGED <<channel_db, blacklist, query, search, path, route, last_path, exc,
                   writes, call>>

update_beacons(block_hash) ==
    /\ pc = "idle"
    /\ IF block_hash_for_beacons = block_hash
       THEN UNCHANGED beacon_state
       ELSE /\ block_hash_for_beacons' = block_hash
            /\ beacons' = SetTo(select_beacons(known_nodes(channel_db), sha256_int(block_hash)))
            /\ prev_nodes_to_beacons' = SetTo(Empty)
            /\ prev_nodes_from_beacons' = SetTo(Empty)
    /\ pc' = "updated"
    /\ UNCHANGED <<channel_db, blacklist, query, search, path, route, last_path, exc,
                   writes, call>>

\* mutant: the maps are computed on every call
is_cached_never(amount_sat, d) == FALSE

\* line 324: the bucket has an entry in the cache
is_cached(amount_sat, d) == amount_sat \in DOMAIN d

\* the cache get_prev_nodes_to_beacons works on (line 323)
beacon_cache(source) == IF source THEN prev_nodes_to_beacons ELSE prev_nodes_from_beacons

\* the call that returned {} because the graph was not loaded (lines 320-322)
NotLoadedCall == [active |-> TRUE, key |-> 0, todo |-> <<>>]

\* get_prev_nodes_to_beacons up to its for loop (lines 319-325)
get_prev_nodes_to_beacons(amount_sat, source) ==
    /\ pc = "idle"
    /\ is_source' = source
    /\ UNCHANGED <<nodeA, nodeB, invoice_amount_msat, my_channels, cancel_requested>>
    /\ IF ~channel_db.data_loaded
       THEN /\ pc' = "beacons_done"
            /\ exc' = exc
            /\ beacon_call' = NotLoadedCall
            /\ UNCHANGED beacon_state
       ELSE IF ~beacon_cache(source).is_set
       THEN /\ pc' = "raised"
            /\ exc' = "AttributeError"
            /\ beacon_call' = NoBeaconCall
            /\ UNCHANGED beacon_state
       ELSE LET key == quantize_amount(amount_sat)
                d == beacon_cache(source).v
            IN  IF is_cached(key, d)
                THEN /\ pc' = "beacons_done"
                     /\ exc' = exc
                     /\ beacon_call' = [active |-> TRUE, key |-> key, todo |-> <<>>]
                     /\ UNCHANGED beacon_state
                ELSE /\ pc' = "beacon_loop"
                     /\ exc' = exc
                     /\ beacon_call' = [active |-> TRUE, key |-> key, todo |-> beacons.v]
                     /\ IF source
                        THEN /\ prev_nodes_to_beacons' = SetTo(Put(d, key, Empty))
                             /\ UNCHANGED prev_nodes_from_beacons
                        ELSE /\ prev_nodes_from_beacons' = SetTo(Put(d, key, Empty))
                             /\ UNCHANGED prev_nodes_to_beacons
                     /\ UNCHANGED <<block_hash_for_beacons, beacons>>
    /\ UNCHANGED <<channel_db, blacklist, search, path, route, last_path, writes, call>>

\* line 329: what get_prev_nodes_to_beacons returns, read at pc = "beacons_done"
ReturnedMaps ==
    IF beacon_call = NotLoadedCall THEN Empty
    ELSE beacon_cache(is_source).v[beacon_call.key]

\* lines 326-327: get_distances(None, node_id, 1000 * amount_sat, ...) for the next beacon
BeaconSearch ==
    /\ pc = "beacon_loop"
    /\ beacon_call.todo # <<>>
    /\ nodeA' = NoNode
    /\ nodeB' = Head(beacon_call.todo)
    /\ invoice_amount_msat' = 1000 * beacon_call.key
    /\ my_channels' = Empty
    /\ StartSearch
    /\ UNCHANGED <<channel_db, blacklist, is_source, beacon_call, cancel_requested, path,
                   route, last_path, exc, writes, beacon_state, call>>

\* line 327: the predecessor map of the beacon is stored under the key
BeaconStore ==
    /\ pc = "returned"
    /\ beacon_call.active
    /\ LET d == beacon_cache(is_source).v
           stored == Put(d, beacon_call.key,
                         Put(d[beacon_call.key], Head(beacon_call.todo), prev_node))
       IN  IF is_source
           THEN /\ prev_nodes_to_beacons' = SetTo(stored)
                /\ UNCHANGED prev_nodes_from_beacons
           ELSE /\ prev_nodes_from_beacons' = SetTo(stored)
                /\ UNCHANGED prev_nodes_to_beacons
    /\ beacon_call' = [beacon_call EXCEPT !.todo = Tail(@)]
    /\ pc' = "beacon_loop"
    /\ distance_from_start' = Empty
    /\ prev_node' = Empty
    /\ nodes_to_explore' = {}
    /\ cur' = NoTuple
    /\ todo' = <<>>
    /\ edge' = NoEdge
    /\ expanded' = <<>>
    /\ UNCHANGED <<channel_db, blacklist, nodeA, nodeB, invoice_amount_msat, my_channels,
                   is_source, cancel_requested, path, route, last_path, exc, writes,
                   block_hash_for_beacons, beacons, call>>

\* line 329: the maps of the key are returned
BeaconLoopEnd ==
    /\ pc = "beacon_loop"
    /\ beacon_call.todo = <<>>
    /\ pc' = "beacons_done"
    /\ UNCHANGED <<channel_db, blacklist, query, search, path, route, last_path, exc, writes,
                   beacon_state, call>>

BeaconGraphs == {LineGraph(2, NoneInt, PFee)}

BeaconInit == Init /\ channel_db \in BeaconGraphs

BeaconNext ==
    \/ Next
    \/ \E h \in BlockHashes : update_beacons(h)
    \/ \E a \in BeaconAmounts, source \in BOOLEAN : get_prev_nodes_to_beacons(a, source)
    \/ BeaconSearch
    \/ BeaconStore
    \/ BeaconLoopEnd

SpecBeacons == BeaconInit /\ [][BeaconNext]_vars

\* the local channel views a caller may pass: none, channels of its own node,
\* and channels its node is no end of
LocalViews(db, a) ==
    LET all == DOMAIN db.info
        own == {c \in all : a \in {db.info[c].node1_id, db.info[c].node2_id}}
    IN  {[c \in m |-> [pay |-> 50000, recv |-> 1000]] :
            m \in {{}} \cup {{c} : c \in all} \cup {own} \cup {all}}

LocalGraphs ==
    {LineGraph(2, NoneInt, PZero), LineGraph(3, NoneInt, PFee),
     DiamondGraph(PFee, {Both(3, 1, 3, PZero)}, PZero, {Both(5, 2, 3, PZero)})}

LocalInit == channel_db \in LocalGraphs /\ Constructed

LocalNext ==
    \/ \E c \in 1..MaxBlacklistScid :
          c \in DOMAIN channel_db.info /\ blacklist = {} /\ add_to_blacklist(c)
    \/ \E a, b \in NodesOf(channel_db), amount \in Amounts :
          \E mine \in LocalViews(channel_db, a) :
             find_path_for_payment(a, b, amount, mine)
    \/ LoopExit
    \/ \E e \in nodes_to_explore : Pop(e)
    \/ ForEnd
    \/ ForHead
    \/ ForEdge
    \/ GetPath
    \/ CreateRoute
    \/ Finish

SpecLocal == LocalInit /\ [][LocalNext]_vars

\* a second thread calls get_prev_nodes_to_beacons while the finder may be in
\* a call of its own, and finds the key in the cache (line 324 false): it is
\* returned d[amount_sat] as it is at that moment (line 329); result holds
\* the key and the beacons the returned map has entries for
other_get_prev_nodes_to_beacons(amount_sat, source) ==
    /\ args = NoArgs
    /\ channel_db.data_loaded
    /\ beacon_cache(source).is_set
    /\ is_cached(quantize_amount(amount_sat), beacon_cache(source).v)
    /\ args' = [fn |-> "get_prev_nodes_to_beacons",
                ints |-> <<amount_sat, IF source THEN 1 ELSE 0>>, route |-> <<>>]
    /\ result' = <<quantize_amount(amount_sat),
                   DOMAIN beacon_cache(source).v[quantize_amount(amount_sat)]>>
    /\ UNCHANGED <<channel_db, blacklist, pc, query, search, path, route, last_path, exc, writes,
                   beacon_state, other>>

LookupInit == channel_db \in BeaconGraphs /\ Constructed

\* lookups of one bucket in both directions, by the finder's thread and by a
\* second one, while the gossip thread may remove a channel
LookupNext ==
    \/ update_beacons(1)
    \/ \E source \in BOOLEAN : get_prev_nodes_to_beacons(1, source)
    \/ \E source \in BOOLEAN : other_get_prev_nodes_to_beacons(1, source)
    \/ \E c \in DOMAIN channel_db.info : gossip_remove_channel(c)
    \/ BeaconSearch
    \/ LoopExit
    \/ \E e \in nodes_to_explore : Pop(e)
    \/ ForEnd
    \/ ForHead
    \/ ForEdge
    \/ BeaconStore
    \/ BeaconLoopEnd
    \/ Finish

SpecLookup == LookupInit /\ [][LookupNext]_vars

\* the steps of get_distances: the loop of lines 207-244 and its exits
SearchStep ==
    \/ LoopExit
    \/ \E e \in nodes_to_explore : Pop(e)
    \/ ForEnd
    \/ ForHead
    \/ ForEdge

\* graphs with cycles and fees, and a line
TermGraphs ==
    {DiamondGraph(PFee, {Both(3, 1, 3, PZero)}, PBase499, {Both(5, 2, 3, PZero)}),
     Graph({Both(1, 1, 2, PFee), Both(2, 2, 3, PPpm), Both(3, 1, 3, PZero)}),
     LineGraph(2, NoneInt, PFee)}

TermInit == channel_db \in TermGraphs /\ Constructed

\* searches with a source (find_path_for_payment) and without one (the beacons)
TermNext ==
    \/ \E c \in 1..MaxBlacklistScid :
          c \in DOMAIN channel_db.info /\ blacklist = {} /\ add_to_blacklist(c)
    \/ \E a, b \in {1, LastNode(channel_db)}, amount \in Amounts :
          \E mine \in MyChannelViews(channel_db, a) :
             find_path_for_payment(a, b, amount, mine)
    \/ update_beacons(1)
    \/ \E source \in BOOLEAN : get_prev_nodes_to_beacons(1, source)
    \/ BeaconSearch
    \/ BeaconStore
    \/ BeaconLoopEnd
    \/ SearchStep
    \/ GetPath
    \/ CreateRoute
    \/ Finish

\* get_distances is a synchronous call: the thread that runs it takes its next
\* step whenever it has one
SpecTerm == TermInit /\ [][TermNext]_vars /\ WF_vars(SearchStep)

\* line 340: the node at the other end of a channel of source_id
other_end(channel_info, source_id) ==
    IF channel_info.node1_id = source_id THEN channel_info.node2_id
    ELSE channel_info.node1_id

\* the (beacon, channel) pairs the loops of lines 335-338 go through
first_hops(db, prev_nodes, source_id) ==
    {<<beacon_id, c>> : beacon_id \in DOMAIN prev_nodes,
                        c \in {get_channels_for_node(db, source_id)[i] :
                                 i \in 1..Len(get_channels_for_node(db, source_id))}}

\* line 341: the path from the neighbour over channel k[2] to beacon k[1]
path_from_neighbour(db, prev_nodes, source_id, k) ==
    get_path(other_end(get_channel_info(db, k[2]), source_id), k[1], prev_nodes[k[1]])

\* lines 334-344: out, keyed by beacon and first channel
paths_to_beacons(db, prev_nodes, source_id) ==
    LET kept == {k \in first_hops(db, prev_nodes, source_id) :
                    LET r == path_from_neighbour(db, prev_nodes, source_id, k)
                    IN  ~r.path.is_none /\ r.path.elems # <<>>}
    IN  [k \in kept |->
            <<<<other_end(get_channel_info(db, k[2]), source_id), k[2]>>>>
               \o path_from_neighbour(db, prev_nodes, source_id, k).path.elems]

\* get_paths_to_beacons once get_prev_nodes_to_beacons has returned (lines 334-345)
get_paths_to_beacons(source_id) ==
    /\ pc = "beacons_done"
    /\ args' = [fn |-> "get_paths_to_beacons", ints |-> <<source_id>>, route |-> <<>>]
    /\ LET raising == {k \in first_hops(channel_db, ReturnedMaps, source_id) :
                          path_from_neighbour(channel_db, ReturnedMaps, source_id, k).end
                              # "return"}
       IN  IF raising # {}
           THEN /\ pc' = "raised"
                /\ exc' = "KeyError"
                /\ result' = <<>>
           ELSE /\ pc' = "paths_done"
                /\ exc' = exc
                /\ result' = paths_to_beacons(channel_db, ReturnedMaps, source_id)
    /\ UNCHANGED <<channel_db, blacklist, query, search, path, route, last_path, writes,
                   beacon_state, other>>

\* ChannelDB.load_data has read the graph: the event data_loaded is set, and stays set
load_data ==
    /\ pc = "idle"
    /\ ~channel_db.data_loaded
    /\ channel_db' = [channel_db EXCEPT !.data_loaded = TRUE]
    /\ UNCHANGED <<blacklist, pc, query, search, path, route, last_path, exc, writes,
                   beacon_state, call>>

\* the beacon maps alone, with the gossip thread changing the graph between calls
BeaconGossipNext ==
    \/ \E c \in 1..MaxBlacklistScid : c \in DOMAIN channel_db.info /\ add_to_blacklist(c)
    \/ \E c \in DOMAIN channel_db.info : pc = "idle" /\ gossip_remove_channel(c)
    \/ load_data
    \/ \E n \in 1..3 : get_paths_to_beacons(n)
    \/ \E h \in BlockHashes : update_beacons(h)
    \/ \E a \in BeaconAmounts, source \in BOOLEAN : get_prev_nodes_to_beacons(a, source)
    \/ BeaconSearch
    \/ LoopExit
    \/ \E e \in nodes_to_explore : Pop(e)
    \/ ForEnd
    \/ ForHead
    \/ ForEdge
    \/ BeaconStore
    \/ BeaconLoopEnd
    \/ Finish

\* the finder may be used while the graph is still being loaded
BeaconGossipInit ==
    /\ \E g \in BeaconGraphs, loaded \in BOOLEAN :
          channel_db = [g EXCEPT !.data_loaded = loaded]
    /\ Constructed

SpecBeaconGossip == BeaconGossipInit /\ [][BeaconGossipNext]_vars

-----------------------------------------------------------------------------
(* The module level functions and _edge_cost, each called on its own *)

rest_of_state == <<channel_db, blacklist, pc, query, search, path, route, last_path, exc,
                   writes, beacon_state, other>>

EdgeOf(base, ppm, cltv) ==
    [node_id |-> 1, short_channel_id |-> 1, fee_base_msat |-> base,
     fee_proportional_millionths |-> ppm, cltv_expiry_delta |-> cltv]

FeeAmounts == {0, 1, 999, 1000, 1001, 9999, 10000, 10001, 999999, 1000000, 2000000}
FeeBases == {0, 1, 1000}
FeePpms == {0, 1, 100, 999, 1000}

SaneFees == {0, 100, 4999, 5000, 5001, 6000, 10000}
SanePayments == {0, 1000, 499999, 500000, 500100, 599999, 600000, 1000000}

\* fee_for_edge_msat, directly and through RouteEdge.fee_for_edge
call_fee_for_edge_msat(forwarded_amount_msat, fee_base_msat, fee_proportional_millionths) ==
    /\ args = NoArgs
    /\ args' = [fn |-> "fee_for_edge_msat",
                ints |-> <<forwarded_amount_msat, fee_base_msat, fee_proportional_millionths>>,
                route |-> <<>>]
    /\ result' = <<fee_for_edge_msat(forwarded_amount_msat, fee_base_msat,
                                      fee_proportional_millionths),
                   RouteEdge_fee_for_edge(EdgeOf(fee_base_msat, fee_proportional_millionths, 0),
                                          forwarded_amount_msat)>>
    /\ UNCHANGED rest_of_state

call_is_fee_sane(fee_msat, payment_amount_msat) ==
    /\ args = NoArgs
    /\ args' = [fn |-> "is_fee_sane", ints |-> <<fee_msat, payment_amount_msat>>,
                route |-> <<>>]
    /\ result' = <<is_fee_sane(fee_msat, payment_amount_msat)>>
    /\ UNCHANGED rest_of_state

RouteEdges == {EdgeOf(0, 0, 40), EdgeOf(1000, 100, 40), EdgeOf(5000, 0, 40),
               EdgeOf(6000, 0, 40), EdgeOf(0, 0, 14 * 144), EdgeOf(0, 5000, 40)}

RoutesOver(edges) ==
    {<<>>} \cup {<<e>> : e \in edges} \cup {<<e, f>> : e, f \in edges}
           \cup {<<e, f, g>> : e, f, g \in edges}

\* routes of up to three edges, and one of 21 edges
Routes == RoutesOver(RouteEdges)
            \cup {[i \in 1..(NUM_MAX_EDGES_IN_PAYMENT_PATH + 1) |-> EdgeOf(0, 0, 1)]}

RouteCalls ==
    {<<r, a>> : r \in Routes, a \in {1000, 50000}}
    \cup {<<r, 1000000>> : r \in RoutesOver({EdgeOf(0, 0, 40), EdgeOf(1000, 100, 40)})}

call_is_route_sane_to_use(r, invoice_amount, min_final_cltv_expiry) ==
    /\ args = NoArgs
    /\ args' = [fn |-> "is_route_sane_to_use",
                ints |-> <<invoice_amount, min_final_cltv_expiry>>, route |-> r]
    /\ result' = <<is_route_sane_to_use(r, invoice_amount, min_final_cltv_expiry),
                   sane_loop(r, Len(r), invoice_amount, min_final_cltv_expiry).ok,
                   route_total_fee(r, invoice_amount, min_final_cltv_expiry)>>
    /\ UNCHANGED rest_of_state

\* the paths create_route_from_path is tried on: None, no element, one, two and
\* three elements, over channels with and without a policy and channels unknown
PathInputs ==
    {NonePath, SomePath(<<>>)}
    \cup {SomePath(<<<<n, c>>>>) : n \in 1..2, c \in 1..3}
    \cup {SomePath(<<<<2, 1>>, <<3, 2>>>>), SomePath(<<<<2, 2>>, <<1, 1>>>>),
          SomePath(<<<<2, 1>>, <<1, 1>>, <<2, 1>>>>), SomePath(<<<<2, 1>>, <<3, 2>>, <<2, 2>>>>)}

\* create_route_from_path on a path of the caller's; args.route holds the path
call_create_route_from_path(p, from_node_id) ==
    /\ args = NoArgs
    /\ args' = [fn |-> "create_route_from_path",
                ints |-> <<from_node_id, IF p.is_none THEN 1 ELSE 0>>, route |-> p.elems]
    /\ LET r == create_route_from_path(channel_db, p, from_node_id)
       IN  result' = <<r.end, r.scid, r.route>>
    /\ UNCHANGED rest_of_state

EdgeAmounts == {999, 1000, 1001, 1999, 2000, 10999, 11000, 50000, 600000}

\* the large amount only where the products of _edge_cost stay below 2^31
EdgeCallFits(db, amount) ==
    amount <= 50000
    \/ \A k \in DOMAIN db.policies :
          db.policies[k].cltv_expiry_delta <= 40
          /\ db.policies[k].fee_proportional_millionths <= 100

\* LNPathFinder._edge_cost; result is <<cost, fee>> flattened, INF being <<-1, 0>>
call_edge_cost(short_channel_id, start_node, end_node, payment_amt_msat, ignore_costs) ==
    /\ args = NoArgs
    /\ EdgeCallFits(channel_db, payment_amt_msat)
    /\ args' = [fn |-> "_edge_cost",
                ints |-> <<short_channel_id, start_node, end_node, payment_amt_msat,
                           IF ignore_costs THEN 1 ELSE 0>>,
                route |-> <<>>]
    /\ LET r == edge_cost(channel_db, short_channel_id, start_node, end_node,
                          payment_amt_msat, ignore_costs)
       IN  result' = <<r[1][1], r[1][2], r[2]>>
    /\ UNCHANGED rest_of_state

\* the sets of known nodes update_beacons is tried on
NodeSets ==
    {1..n : n \in {0, 1, 3, 19, 20, 21, 25}} \cup {5..30, {2 * i : i \in 1..22}}

\* lines 305-311 of update_beacons on a set of known nodes
call_select_beacons(nodes, block_hash) ==
    /\ args = NoArgs
    /\ args' = [fn |-> "select_beacons", ints |-> <<block_hash>> \o SortedSeq(nodes),
                route |-> <<>>]
    /\ result' = select_beacons(nodes, sha256_int(block_hash))
    /\ UNCHANGED rest_of_state

FnNext ==
    \/ \E c \in 1..2, n \in {<<1, 2>>, <<2, 1>>}, a \in EdgeAmounts, i \in BOOLEAN :
          call_edge_cost(c, n[1], n[2], a, i)
    \/ \E c \in RouteCalls :
          call_is_route_sane_to_use(c[1], c[2], MIN_FINAL_CLTV_EXPIRY_FOR_INVOICE)
    \/ \E a \in FeeAmounts, b \in FeeBases, p \in FeePpms : call_fee_for_edge_msat(a, b, p)
    \/ \E f \in SaneFees, p \in SanePayments : call_is_fee_sane(f, p)
    \/ \E nodes \in NodeSets, h \in BlockHashes : call_select_beacons(nodes, h)
    \/ \E p \in PathInputs, n \in 1..3 : call_create_route_from_path(p, n)

\* one channel 1 - 2: each policy, a known capacity, a policy of one side only
FnGraphs ==
    {LineGraph(1, NoneInt, pol) : pol \in LinePolicies \cup {PPpm, PBase499}}
    \cup {LineGraph(1, 10, PZero), Graph({Chan(1, 1, 2, NoneInt, <<>>, <<PFee>>)}),
          Graph({Both(1, 1, 2, PFee), Chan(2, 2, 3, NoneInt, <<>>, <<PBase499>>)})}

FnInit == channel_db \in FnGraphs /\ Constructed

SpecFns == FnInit /\ [][FnNext]_vars

-----------------------------------------------------------------------------
(* Paths of the graph, as the claims speak of them *)

\* the node an element of a path starts from
StartOf(a, p, i) == IF i = 1 THEN a ELSE p[i - 1][1]

EdgePolicy(db, a, p, i) == get_policy_for_node(db, p[i][2], StartOf(a, p, i))

HasEdgePolicy(db, a, p, i) ==
    has_channel_info(db, p[i][2]) /\ has_policy_for_node(db, p[i][2], StartOf(a, p, i))

\* the amount forwarded through element i of p: the invoice amount plus the
\* compounded fees of the elements after it
RECURSIVE ForwardedAmount(_, _, _, _, _)
ForwardedAmount(db, a, p, i, amount) ==
    IF i >= Len(p) THEN amount
    ELSE LET after == ForwardedAmount(db, a, p, i + 1, amount)
         IN  IF HasEdgePolicy(db, a, p, i + 1)
             THEN after + fee_for_edge_msat(after,
                              EdgePolicy(db, a, p, i + 1).fee_base_msat,
                              EdgePolicy(db, a, p, i + 1).fee_proportional_millionths)
             ELSE after

Endpoints(db, c) == {db.info[c].node1_id, db.info[c].node2_id}

\* every path from a node to target that visits no node twice
RECURSIVE SimplePathsFrom(_, _, _, _)
SimplePathsFrom(db, from, target, visited) ==
    IF from = target THEN {<<>>}
    ELSE UNION {
           UNION { {<<<<n, c>>>> \o q : q \in SimplePathsFrom(db, n, target, visited \cup {n})}
                   : n \in (Endpoints(db, c) \ visited) }
           : c \in {x \in DOMAIN db.info : from \in Endpoints(db, x)} }

SimplePaths(db, a, b) == SimplePathsFrom(db, a, b, {a})

\* line 222-230: the local channel gate of element i (only the first leaves the caller)
LocalGate(db, a, p, i, amount, mine) ==
    p[i][2] \in DOMAIN mine /\ StartOf(a, p, i) = a
        => can_pay(mine[p[i][2]], ForwardedAmount(db, a, p, i, amount))

\* the sum of the edge costs of p, each at the amount forwarded through that edge
RECURSIVE PathCostFrom(_, _, _, _, _, _, _)
PathCostFrom(db, a, p, i, amount, mine, bl) ==
    IF i > Len(p) THEN Cost(0, 0)
    ELSE IF p[i][2] \in bl \/ ~LocalGate(db, a, p, i, amount, mine) THEN INF
    ELSE CostAdd(edge_cost(db, p[i][2], StartOf(a, p, i), p[i][1],
                           ForwardedAmount(db, a, p, i, amount), StartOf(a, p, i) = a)[1],
                 PathCostFrom(db, a, p, i + 1, amount, mine, bl))

PathCost(p) ==
    PathCostFrom(channel_db, nodeA, p, 1, invoice_amount_msat, my_channels, blacklist)

Returned == pc = "done" /\ ~path.is_none

-----------------------------------------------------------------------------
(* C1: a channel blacklisted before the call is on no returned path, and    *)
(* when every path from source to destination needs a blacklisted channel   *)
(* the result is None.                                                      *)
BlacklistExclusion ==
    pc = "done" =>
        /\ \A i \in 1..Len(path.elems) : path.elems[i][2] \notin blacklist
        /\ (\A q \in SimplePaths(channel_db, nodeA, nodeB) :
               \E i \in 1..Len(q) : q[i][2] \in blacklist) => path.is_none

BlacklistAvoided ==
    /\ Returned
    /\ \E q \in SimplePaths(channel_db, nodeA, nodeB) :
          /\ \E i \in 1..Len(q) : q[i][2] \in blacklist
          /\ ~IsInf(PathCostFrom(channel_db, nodeA, q, 1, invoice_amount_msat, my_channels, {}))

(* C2: every edge of a returned path has a channel info and an enabled      *)
(* policy of its start node, and passes the amount, time-lock and fee       *)
(* checks at the amount forwarded through it.                               *)
EdgeAdmitted(db, a, p, i, amount) ==
    /\ HasEdgePolicy(db, a, p, i)
    /\ LET pol == EdgePolicy(db, a, p, i)
           info == get_channel_info(db, p[i][2])
           amt == ForwardedAmount(db, a, p, i, amount)
       IN  /\ ~pol.disabled
           /\ pol.htlc_minimum_msat <= amt
           /\ pol.htlc_maximum_msat # NoneInt => amt <= pol.htlc_maximum_msat
           /\ info.capacity_sat # NoneInt => amt \div 1000 <= info.capacity_sat
           /\ pol.cltv_expiry_delta <= 2016
           /\ is_fee_sane(fee_for_edge_msat(amt, pol.fee_base_msat,
                                            pol.fee_proportional_millionths), amt)

PerEdgeAdmission ==
    Returned => \A i \in 1..Len(path.elems) :
                   EdgeAdmitted(channel_db, nodeA, path.elems, i, invoice_amount_msat)

FeesCompounded ==
    /\ Returned
    /\ Len(path.elems) >= 3
    /\ ForwardedAmount(channel_db, nodeA, path.elems, 1, invoice_amount_msat)
         > ForwardedAmount(channel_db, nodeA, path.elems, 2, invoice_amount_msat)
    /\ ForwardedAmount(channel_db, nodeA, path.elems, 2, invoice_amount_msat)
         > invoice_amount_msat

(* C3: the returned path costs no more than any other path from source to   *)
(* destination whose edges are all admissible at their forwarded amounts.   *)
CostMinimality ==
    Returned => \A q \in SimplePaths(channel_db, nodeA, nodeB) :
                   CostLeq(PathCost(path.elems), PathCost(q))

(* C4: a returned path has at most 20 edges. *)
RouteLengthBound ==
    Returned => Len(path.elems) <= NUM_MAX_EDGES_IN_PAYMENT_PATH

(* C5: a returned path is not empty, ends at the destination, and each of   *)
(* its channels joins the node before it to the node of its element.        *)
RouteShape ==
    Returned =>
        /\ path.elems # <<>>
        /\ path.elems[Len(path.elems)][1] = nodeB
        /\ \A i \in 1..Len(path.elems) :
              /\ has_channel_info(channel_db, path.elems[i][2])
              /\ Endpoints(channel_db, path.elems[i][2])
                    = {StartOf(nodeA, path.elems, i), path.elems[i][1]}

LongerPathReturned == Returned /\ Len(path.elems) >= 3

(* C6 as stated: a route built from a returned path passes                   *)
(* is_route_sane_to_use.                                                    *)
WholeRouteSane ==
    pc = "routed" =>
        is_route_sane_to_use(route, invoice_amount_msat, MIN_FINAL_CLTV_EXPIRY_FOR_INVOICE)

(* C6 as amended: in a route built from a returned path every per-edge      *)
(* check of is_route_sane_to_use passes, so that is_route_sane_to_use holds *)
(* exactly when the route has at most 20 edges, the accumulated time-lock   *)
(* is at most 4032 and the accumulated fee is sane.                         *)
RouteWalk == sane_loop(route, Len(route), invoice_amount_msat,
                       MIN_FINAL_CLTV_EXPIRY_FOR_INVOICE)

RouteEdgesSane ==
    pc = "routed" =>
        /\ RouteWalk.ok
        /\ is_route_sane_to_use(route, invoice_amount_msat, MIN_FINAL_CLTV_EXPIRY_FOR_INVOICE)
             <=> /\ Len(route) <= NUM_MAX_EDGES_IN_PAYMENT_PATH
                 /\ RouteWalk.cltv <= NBLOCK_CLTV_EXPIRY_TOO_FAR_INTO_FUTURE
                 /\ is_fee_sane(RouteWalk.amt - invoice_amount_msat, invoice_amount_msat)

InsaneRouteBuilt ==
    /\ pc = "routed"
    /\ Len(route) = 3
    /\ RouteWalk.ok
    /\ RouteWalk.amt > invoice_amount_msat
    /\ ~is_route_sane_to_use(route, invoice_amount_msat, MIN_FINAL_CLTV_EXPIRY_FOR_INVOICE)

(* C7: the source and the nodes of a returned path are pairwise distinct.   *)
NodesOfPath == <<nodeA>> \o [i \in 1..Len(path.elems) |-> path.elems[i][1]]

NoRepeatedNode ==
    Returned => \A i, j \in 1..Len(NodesOfPath) :
                   i # j => NodesOfPath[i] # NodesOfPath[j]

PathInCyclicGraph ==
    /\ Returned
    /\ Len(path.elems) >= 2
    /\ Cardinality(SimplePaths(channel_db, nodeA, nodeB)) >= 2

(* C8: the same query on the same graph and blacklist returns the same path *)
(* again, also when candidate paths have equal cost.                        *)
Determinism ==
    pc = "done" /\ last_path # <<>> => path = last_path[1]

RepeatedWithTie ==
    /\ Returned
    /\ last_path # <<>>
    /\ \E q \in SimplePaths(channel_db, nodeA, nodeB) :
          q # path.elems /\ PathCost(q) = PathCost(path.elems)

(* C9: create_route_from_path on a returned path does not raise             *)
(* NoChannelPolicy, and the route has the nodes and channels of the path.   *)
RoundTrip ==
    /\ exc # "NoChannelPolicy"
    /\ pc = "routed" =>
          /\ Len(route) = Len(path.elems)
          /\ \A i \in 1..Len(route) :
                <<route[i].node_id, route[i].short_channel_id>> = path.elems[i]

RouteBuilt ==
    /\ pc = "routed"
    /\ Len(route) >= 2
    /\ \E i \in 1..Len(route) :
          ~has_policy_for_node(channel_db, route[i].short_channel_id, route[i].node_id)

(* C10: whatever the gossip thread removes while the search runs,           *)
(* get_distances does not raise.                                            *)
RaceTolerance == exc \notin {"AttributeError", "AssertionError"}

(* C18: fee_for_edge_msat(amount, base, ppm) is base plus the floor of      *)
(* amount * ppm / 1_000_000, RouteEdge.fee_for_edge gives the same, it does *)
(* not decrease when the amount grows, and it is base when ppm is 0.        *)
FeeFormula ==
    args.fn = "fee_for_edge_msat" =>
        LET a == args.ints[1]
            base == args.ints[2]
            ppm == args.ints[3]
            q == result[1] - base
        IN  /\ q * 1000000 <= a * ppm
            /\ a * ppm < (q + 1) * 1000000
            /\ result[2] = result[1]
            /\ ppm = 0 => result[1] = base
            /\ \A a2 \in FeeAmounts :
                  a2 <= a => fee_for_edge_msat(a2, base, ppm) <= result[1]

FeeTruncated ==
    /\ args.fn = "fee_for_edge_msat"
    /\ args.ints[1] * args.ints[3] > 1000000
    /\ (args.ints[1] * args.ints[3]) % 1000000 # 0
    /\ result[1] > args.ints[2]

(* C19: is_fee_sane(fee, payment) is true exactly when fee <= 5000 or       *)
(* 100 * fee <= payment.                                                    *)
FeeSanity ==
    args.fn = "is_fee_sane" =>
        (result[1] <=> (args.ints[1] <= 5000 \/ 100 * args.ints[1] <= args.ints[2]))

LargeFeeOnePercent ==
    /\ args.fn = "is_fee_sane"
    /\ args.ints = <<6000, 600000>>
    /\ result[1]

-----------------------------------------------------------------------------
(* Fees of a route *)

RouteCalled == args.fn = "is_route_sane_to_use"

WithFee(e, f) == [e EXCEPT !.fee_base_msat = f[1], !.fee_proportional_millionths = f[2]]

OtherFees == {<<0, 0>>, <<1000, 100>>, <<6000, 0>>}

\* the amount at the sender side of the last k edges of r, counted up hop by
\* hop from the amount a at the destination
RECURSIVE SenderAmount(_, _, _)
SenderAmount(r, k, a) ==
    IF k = 0 THEN a
    ELSE LET before == SenderAmount(r, k - 1, a)
             e == r[Len(r) - k + 1]
         IN  before + fee_for_edge_msat(before, e.fee_base_msat, e.fee_proportional_millionths)

ForwardingHops(r) == IF r = <<>> THEN 0 ELSE Len(r) - 1

(* C11 as stated: changing only the fee of the last edge of a route does    *)
(* not change the total fee is_route_sane_to_use accumulates.               *)
LastEdgeFeeNotCounted ==
    RouteCalled /\ args.route # <<>> /\ result[2] =>
        \A f \in OtherFees :
            LET r2 == [args.route EXCEPT ![Len(args.route)] = WithFee(@, f)]
            IN  sane_loop(r2, Len(r2), args.ints[1], args.ints[2]).ok
                    => route_total_fee(r2, args.ints[1], args.ints[2]) = result[3]

(* C11 as amended: is_route_sane_to_use walks from the last edge back to    *)
(* the second one; the fee of the last edge is part of the total, and it is *)
(* the first edge whose fee is never added: changing only the fee of the    *)
(* first edge changes neither the total fee nor the result.                 *)
FirstEdgeFeeNotCounted ==
    RouteCalled /\ args.route # <<>> =>
        /\ \A f \in OtherFees :
              LET r2 == [args.route EXCEPT ![1] = WithFee(@, f)]
              IN  /\ sane_loop(r2, Len(r2), args.ints[1], args.ints[2])
                        = sane_loop(args.route, Len(args.route), args.ints[1], args.ints[2])
                  /\ is_route_sane_to_use(r2, args.ints[1], args.ints[2]) = result[1]
        /\ Len(args.route) >= 2 /\ result[2] =>
              result[3] >= fee_for_edge_msat(args.ints[1],
                               args.route[Len(args.route)].fee_base_msat,
                               args.route[Len(args.route)].fee_proportional_millionths)

FirstEdgeFeeSkipped ==
    /\ RouteCalled
    /\ Len(args.route) = 2
    /\ args.ints[1] = 1000
    /\ args.route[1].fee_base_msat = 6000
    /\ args.route[2].fee_base_msat = 1000
    /\ result[1]
    /\ result[3] = 1000

(* C12: the total fee of a route is found by starting from the invoice      *)
(* amount at the destination and adding, hop by hop toward the source, the  *)
(* fee of each forwarding hop on the amount accumulated so far; for A-B-D   *)
(* with B charging base 1000 and 100 ppm and 1_000_000 msat it is 1100.     *)
FeeCompounding ==
    RouteCalled /\ result[2] =>
        /\ args.ints[1] + result[3]
              = SenderAmount(args.route, ForwardingHops(args.route), args.ints[1])
        /\ (/\ Len(args.route) = 2
            /\ args.route[2] = EdgeOf(1000, 100, 40)
            /\ args.ints[1] = 1000000) => result[3] = 1100

ThreeNodeExample ==
    /\ RouteCalled
    /\ args.route = <<EdgeOf(0, 0, 40), EdgeOf(1000, 100, 40)>>
    /\ args.ints[1] = 1000000
    /\ result[1]
    /\ args.ints[1] + result[3] = 1001100

(* C13: a route that ends a longer route accumulates no more fee than the   *)
(* longer route, for the same invoice amount.                               *)
MonotoneFees ==
    RouteCalled /\ result[2] =>
        \A k \in 1..Len(args.route) :
            LET r1 == SubSeq(args.route, k, Len(args.route))
            IN  /\ sane_loop(r1, Len(r1), args.ints[1], args.ints[2]).ok
                /\ route_total_fee(r1, args.ints[1], args.ints[2]) <= result[3]

LongerRouteCostsMore ==
    /\ RouteCalled
    /\ Len(args.route) = 3
    /\ result[2]
    /\ LET r1 == SubSeq(args.route, 2, 3)
       IN  /\ route_total_fee(r1, args.ints[1], args.ints[2]) > 0
           /\ route_total_fee(r1, args.ints[1], args.ints[2]) < result[3]

-----------------------------------------------------------------------------
(* _edge_cost *)

EdgeCostCalled == args.fn = "_edge_cost"

\* the conditions under which an edge is not to be used, as the claim lists them
Inadmissible(db, short_channel_id, start_node, amount) ==
    IF short_channel_id \notin DOMAIN db.info THEN TRUE
    ELSE IF <<short_channel_id, start_node>> \notin DOMAIN db.policies THEN TRUE
    ELSE LET info == db.info[short_channel_id]
             pol == db.policies[<<short_channel_id, start_node>>]
             fee == pol.fee_base_msat
                      + ((amount * pol.fee_proportional_millionths) \div 1000000)
         IN  \/ pol.disabled
             \/ amount < pol.htlc_minimum_msat
             \/ info.capacity_sat # NoneInt /\ amount \div 1000 > info.capacity_sat
             \/ pol.htlc_maximum_msat # NoneInt /\ amount > pol.htlc_maximum_msat
             \/ pol.cltv_expiry_delta > 2016
             \/ ~(fee <= 5000 \/ 100 * fee <= amount)

(* C15: _edge_cost returns (infinity, 0) exactly when the channel info or   *)
(* the policy of start_node is absent, the policy is disabled, the amount   *)
(* is below htlc_minimum_msat, above the capacity or above                  *)
(* htlc_maximum_msat, cltv_expiry_delta is above 2016, or the fee is not    *)
(* sane; otherwise the cost is finite.                                      *)
EdgeAdmission ==
    EdgeCostCalled =>
        IF Inadmissible(channel_db, args.ints[1], args.ints[2], args.ints[4])
        THEN result = <<-1, 0, 0>>
        ELSE result[1] >= 0 /\ result[2] >= 0

TwoWeeksAdmitted ==
    /\ EdgeCostCalled
    /\ has_policy_for_node(channel_db, args.ints[1], args.ints[2])
    /\ get_policy_for_node(channel_db, args.ints[1], args.ints[2]).cltv_expiry_delta = 2016
    /\ result[1] >= 0

\* the policy an admitted edge was priced with
CalledPolicy == get_policy_for_node(channel_db, args.ints[1], args.ints[2])

CalledFee ==
    fee_for_edge_msat(args.ints[4], CalledPolicy.fee_base_msat,
                      CalledPolicy.fee_proportional_millionths)

CalledCltvTerm == CalledPolicy.cltv_expiry_delta * args.ints[4] * 15

(* C16 as stated: the cost of an admissible edge not starting at the source *)
(* is 500 + fee + cltv_expiry_delta * amount * 15 / 1_000_000_000 in        *)
(* integer arithmetic, so always a whole number.                            *)
IntegerEdgeCost ==
    EdgeCostCalled /\ args.ints[5] = 0 /\ result[1] >= 0 =>
        /\ result[1] = base_cost + CalledFee + (CalledCltvTerm \div Billion)
        /\ result[2] = 0
        /\ result[3] = CalledFee

(* C16 as amended: the cost is 500 + fee + cltv_expiry_delta * amount * 15  *)
(* / 1_000_000_000 with the division not truncated (a float), so it has a   *)
(* fraction whenever the time-lock term is no multiple of 10^9; the second  *)
(* value is fee_for_edge(amount).                                           *)
FractionalEdgeCost ==
    EdgeCostCalled /\ args.ints[5] = 0 /\ result[1] >= 0 =>
        /\ result[1] = base_cost + CalledFee + (CalledCltvTerm \div Billion)
        /\ result[2] = CalledCltvTerm % Billion
        /\ result[3] = CalledFee

CostWithFraction ==
    /\ EdgeCostCalled
    /\ args.ints[5] = 0
    /\ result[1] > base_cost
    /\ result[2] > 0
    /\ result[3] > 0

-----------------------------------------------------------------------------
(* Local channels *)

(* C14: a returned path does not leave the source through a local channel   *)
(* that cannot pay the amount forwarded into it, and when every channel of  *)
(* the source is a local channel that cannot pay, the result is None.       *)
LocalLiquidityGate ==
    pc = "done" =>
        /\ \A i \in 1..Len(path.elems) :
              StartOf(nodeA, path.elems, i) = nodeA /\ path.elems[i][2] \in DOMAIN my_channels
                  => can_pay(my_channels[path.elems[i][2]],
                             ForwardedAmount(channel_db, nodeA, path.elems, i,
                                             invoice_amount_msat))
        /\ (/\ nodeA # nodeB
            /\ \A c \in DOMAIN channel_db.info :
                  nodeA \in Endpoints(channel_db, c) =>
                      /\ c \in DOMAIN my_channels
                      /\ ~can_pay(my_channels[c], invoice_amount_msat)) => path.is_none

\* a path over the local channel exists and is admissible but for can_pay
LocalChannelCannotPay ==
    /\ pc = "done"
    /\ nodeA # nodeB
    /\ my_channels # Empty
    /\ \A c \in DOMAIN my_channels : ~can_pay(my_channels[c], invoice_amount_msat)
    /\ \E q \in SimplePaths(channel_db, nodeA, nodeB) :
          /\ q[1][2] \in DOMAIN my_channels
          /\ ~IsInf(PathCostFrom(channel_db, nodeA, q, 1, invoice_amount_msat, Empty, blacklist))

-----------------------------------------------------------------------------
(* Edges of the source's own node *)

\* the edge under inspection starts at the source of the search
OwnEdge == nodeA # NoNode /\ edge.startnode = nodeA

\* a step of the for loop that finds a shorter way to the edge's start node
RelaxStep ==
    pc = "edge" /\ pc' = "for" /\ distance_from_start' # distance_from_start

RelaxedPolicy ==
    get_policy_for_node(channel_db, edge.scid,
                        cost_start_node(is_source, edge.startnode, cur[3]))

RelaxedFee ==
    fee_for_edge_msat(cur[2], RelaxedPolicy.fee_base_msat,
                      RelaxedPolicy.fee_proportional_millionths)

RelaxedCltvTerm == RelaxedPolicy.cltv_expiry_delta * cur[2] * 15

\* what a relaxing step leaves behind when the edge has the cost and fee given
RelaxedWith(cost, fee) ==
    LET alt == CostAdd(distance_from_start[cur[3]], cost)
    IN  /\ distance_from_start'[edge.startnode] = alt
        /\ <<alt, cur[2] + fee, edge.startnode>> \in nodes_to_explore'

(* C17 as stated: an admissible edge starting at the source costs BASE_COST *)
(* plus the time-lock term, without the fee, and adds no fee to the amount; *)
(* every other edge, and every edge of a search without a source, has the   *)
(* full cost and adds its fee.                                              *)
OwnEdgeKeepsTimeLockTerm ==
    [][RelaxStep =>
          IF OwnEdge THEN RelaxedWith(Cost(base_cost, RelaxedCltvTerm), 0)
          ELSE RelaxedWith(Cost(base_cost + RelaxedFee, RelaxedCltvTerm), RelaxedFee)]_vars

(* C17 as amended: an admissible edge starting at the source costs exactly  *)
(* BASE_COST, fee and time-lock term both dropped, and adds no fee to the   *)
(* amount; every other edge, and every edge of a search without a source,   *)
(* has the full cost and adds its fee.                                      *)
OwnEdgeCostsBaseOnly ==
    [][RelaxStep =>
          IF OwnEdge THEN RelaxedWith(Cost(base_cost, 0), 0)
          ELSE RelaxedWith(Cost(base_cost + RelaxedFee, RelaxedCltvTerm), RelaxedFee)]_vars

\* the source was reached over an edge of its own that asks a fee and a time lock
OwnEdgeRelaxed ==
    /\ nodeA # NoNode
    /\ nodeA \in DOMAIN prev_node
    /\ LET p == get_policy_for_node(channel_db, prev_node[nodeA][2], nodeA)
       IN  /\ p.fee_base_msat > 0
           /\ p.cltv_expiry_delta > 0
    /\ distance_from_start[nodeA]
          = CostAdd(distance_from_start[prev_node[nodeA][1]], Cost(base_cost, 0))

-----------------------------------------------------------------------------
(* Queries and the state of the path finder *)

\* a step of find_path_for_payment, get_path or create_route_from_path, from
\* the call to the point the caller has the result, None or the exception
QueryStep ==
    /\ ~beacon_call.active
    /\ ~beacon_call'.active
    /\ pc # "updated" /\ pc' # "updated"
    /\ pc # "idle" \/ pc' # "idle"

(* C20: find_path_for_payment, get_path and create_route_from_path leave    *)
(* the blacklist, block_hash_for_beacons, the beacon list, both beacon      *)
(* predecessor caches and the channel graph as they were, whether they      *)
(* return a result, return None or raise.                                   *)
QueriesHaveNoSideEffects ==
    [][QueryStep => UNCHANGED <<blacklist, block_hash_for_beacons, beacons,
                                prev_nodes_to_beacons, prev_nodes_from_beacons,
                                channel_db>>]_vars

\* a query has raised with the blacklist and the caches filled
QueryRaisedAfterBeacons ==
    /\ pc = "raised"
    /\ ~beacon_call.active
    /\ path.is_none
    /\ blacklist # {}
    /\ block_hash_for_beacons # NoHash
    /\ prev_nodes_to_beacons.is_set
    /\ prev_nodes_to_beacons.v # Empty

-----------------------------------------------------------------------------
(* Beacon updates *)

\* update_beacons has just returned
UpdateReturns == pc = "idle" /\ pc' = "updated"

\* the beacons update_beacons would select from the graph as it is now
FreshBeacons ==
    select_beacons(known_nodes(channel_db), sha256_int(block_hash_for_beacons))

(* C21: update_beacons(h) with h the block hash of the previous update      *)
(* leaves the beacon list and both predecessor caches unchanged, even if    *)
(* the graph gained or lost nodes in between.                               *)
SameHashIsNoOp ==
    [][UpdateReturns /\ block_hash_for_beacons' = block_hash_for_beacons
          => UNCHANGED <<beacons, prev_nodes_to_beacons, prev_nodes_from_beacons>>]_vars

\* an update with the same hash has returned after the graph lost a beacon
\* and with predecessor maps in both caches
SameHashAfterGraphChange ==
    /\ pc = "updated"
    /\ writes > 0
    /\ beacons.v # FreshBeacons
    /\ prev_nodes_to_beacons.v # Empty
    /\ prev_nodes_from_beacons.v # Empty

BeaconSet == {beacons.v[i] : i \in 1..Len(beacons.v)}

\* get_prev_nodes_to_beacons is called with the caches there
BeaconCallStarts == pc = "idle" /\ beacon_call'.active

(* C22 as stated: an update_beacons with a new block hash leaves both       *)
(* predecessor caches empty; any get_prev_nodes_to_beacons call that finds  *)
(* them empty runs the searches; and every call returns a map that has      *)
(* exactly the beacons of the current list as keys.                         *)
CacheInvalidationAnyCall ==
    [][/\ UpdateReturns /\ block_hash_for_beacons' # block_hash_for_beacons
            => /\ prev_nodes_to_beacons' = SetTo(Empty)
               /\ prev_nodes_from_beacons' = SetTo(Empty)
       /\ BeaconCallStarts /\ beacon_cache(is_source') = SetTo(Empty)
            => pc' = "beacon_loop" /\ beacon_call'.todo = beacons.v
       /\ pc' = "beacons_done" /\ beacons.is_set
            => DOMAIN ReturnedMaps' = BeaconSet']_vars

(* C22 as amended: an update_beacons with a new block hash leaves both      *)
(* predecessor caches empty; a get_prev_nodes_to_beacons call made with the *)
(* graph loaded that finds them empty runs the searches; and every map such *)
(* a call returns has exactly the beacons of the current list as keys, so   *)
(* no map of an older beacon set is returned once the update has completed. *)
(* A call made before the graph is loaded returns {} and searches nothing.  *)
CacheInvalidation ==
    [][/\ UpdateReturns /\ block_hash_for_beacons' # block_hash_for_beacons
            => /\ prev_nodes_to_beacons' = SetTo(Empty)
               /\ prev_nodes_from_beacons' = SetTo(Empty)
       /\ BeaconCallStarts /\ beacon_cache(is_source') = SetTo(Empty)
            => IF beacon_call' = NotLoadedCall
               THEN pc' = "beacons_done" /\ ReturnedMaps' = Empty
               ELSE pc' = "beacon_loop" /\ beacon_call'.todo = beacons.v
       /\ pc' = "beacons_done" /\ beacons.is_set /\ beacon_call' # NotLoadedCall
            => DOMAIN ReturnedMaps' = BeaconSet']_vars

\* maps of the two beacons left after the graph lost a node and the block
\* hash changed have been returned
MapsOfNewBeaconsReturned ==
    /\ pc = "beacons_done"
    /\ beacon_call # NotLoadedCall
    /\ writes > 0
    /\ block_hash_for_beacons = 2
    /\ beacons.v = FreshBeacons
    /\ Len(beacons.v) = 2
    /\ DOMAIN ReturnedMaps = BeaconSet
    /\ \E b \in BeaconSet : ReturnedMaps[b] # Empty

-----------------------------------------------------------------------------
(* Beacon selection *)

SelectCalled == args.fn = "select_beacons"

\* the known nodes and the hash value of the call
SelectNodes == {args.ints[i] : i \in 2..Len(args.ints)}

SelectHash == sha256_int(args.ints[1])

Selected == {result[i] : i \in 1..Len(result)}

(* C23: the beacon list holds min(20, number of known nodes) distinct known *)
(* node ids, and no node outside it has a smaller popcount of               *)
(* node_id XOR sha256(h) than a node inside it, nor an equal popcount and a *)
(* smaller node id.                                                         *)
BeaconSelection ==
    SelectCalled =>
        /\ Len(result) = IF Cardinality(SelectNodes) < 20 THEN Cardinality(SelectNodes) ELSE 20
        /\ Cardinality(Selected) = Len(result)
        /\ Selected \subseteq SelectNodes
        /\ \A x \in Selected, y \in SelectNodes \ Selected :
              \/ bits_differing(x, SelectHash) < bits_differing(y, SelectHash)
              \/ /\ bits_differing(x, SelectHash) = bits_differing(y, SelectHash)
                 /\ x < y

\* more than 20 known nodes, and the cut falls between two nodes of equal popcount
SelectionCutsATie ==
    /\ SelectCalled
    /\ Cardinality(SelectNodes) > 20
    /\ Len(result) = 20
    /\ \E x \in Selected, y \in SelectNodes \ Selected :
          bits_differing(x, SelectHash) = bits_differing(y, SelectHash)
    /\ \E x \in Selected, y \in SelectNodes \ Selected : y < x

-----------------------------------------------------------------------------
(* Memoization of the beacon maps *)

\* the entry of bucket k and direction src is the one a running call is filling
BeingFilled(src, k) ==
    /\ beacon_call.active
    /\ beacon_call.key = k
    /\ is_source = src
    /\ pc # "beacons_done"

\* the scids a returned set of maps goes through
ChannelsOfMaps(maps) ==
    UNION {{maps[b][n][2] : n \in DOMAIN maps[b]} : b \in DOMAIN maps}

(* C24: between two beacon updates the searches of a bucket and direction   *)
(* are run at most once: a call whose bucket has an entry in the cache of   *)
(* its direction returns that entry without searching and without changing  *)
(* anything, whatever happened to the graph and the blacklist since; a call *)
(* whose bucket has no entry in the cache of its direction searches, also   *)
(* when the other direction has one; a finished entry is not changed until  *)
(* the block hash changes.                                                  *)
Memoization ==
    [][/\ BeaconCallStarts =>
            LET d == IF is_source' THEN prev_nodes_to_beacons ELSE prev_nodes_from_beacons
                k == beacon_call'.key
            IN  IF beacon_call' = NotLoadedCall
                THEN prev_nodes_to_beacons.v = Empty /\ prev_nodes_from_beacons.v = Empty
                ELSE IF k \in DOMAIN d.v
                THEN /\ pc' = "beacons_done"
                     /\ UNCHANGED beacon_state
                     /\ ReturnedMaps' = d.v[k]
                ELSE pc' = "beacon_loop"
       /\ block_hash_for_beacons' = block_hash_for_beacons =>
            /\ \A k \in DOMAIN prev_nodes_to_beacons.v :
                  ~BeingFilled(TRUE, k)
                      => /\ k \in DOMAIN prev_nodes_to_beacons'.v
                         /\ prev_nodes_to_beacons'.v[k] = prev_nodes_to_beacons.v[k]
            /\ \A k \in DOMAIN prev_nodes_from_beacons.v :
                  ~BeingFilled(FALSE, k)
                      => /\ k \in DOMAIN prev_nodes_from_beacons'.v
                         /\ prev_nodes_from_beacons'.v[k] = prev_nodes_from_beacons.v[k]]_vars

\* stored maps were returned that go through a channel the graph has lost
\* and a channel that is blacklisted, and the other direction has no entry
StaleMapsReturned ==
    /\ pc = "beacons_done"
    /\ beacon_call # NotLoadedCall
    /\ beacon_call.key = 10
    /\ \E c \in ChannelsOfMaps(ReturnedMaps) : c \notin DOMAIN channel_db.info
    /\ \E c \in ChannelsOfMaps(ReturnedMaps) : c \in blacklist
    /\ beacon_call.key \notin DOMAIN beacon_cache(~is_source).v

-----------------------------------------------------------------------------
(* Paths to the beacons *)

(* C25: every path get_paths_to_beacons(amount_sat, source_id) returns      *)
(* starts with a channel of source_id that is admissible for the amount: it *)
(* is not blacklisted, source_id has a policy for it that is not disabled,  *)
(* and the amount is within its bounds.                                     *)
FirstHopsAdmissible ==
    pc = "paths_done" /\ is_source =>
        \A k \in DOMAIN result :
            LET source_id == args.ints[1]
                first == result[k][1]
            IN  /\ source_id \in Endpoints(channel_db, first[2])
                /\ ~is_blacklisted(first[2], blacklist)
                /\ ~IsInf(edge_cost(channel_db, first[2], source_id, first[1],
                                    1000 * beacon_call.key, FALSE)[1])

-----------------------------------------------------------------------------
(* Cancellation *)

(* C26: once the caller has requested cancellation of a running search, the *)
(* search pops nothing more from the queue: at the next test of the while   *)
(* loop it stops and reports Cancelled.                                     *)
CancellationStopsSearch ==
    [][cancel_requested /\ pc = "while" /\ nodes_to_explore # {}
          => pc' = "raised" /\ exc' = "Cancelled"]_vars

-----------------------------------------------------------------------------
(* Two searches at once *)

-----------------------------------------------------------------------------
(* create_route_from_path *)

CreateRouteCalled == args.fn = "create_route_from_path"

\* the node the policy of element i is looked up for
PolicyNode(i) == IF i = 1 THEN args.ints[1] ELSE args.route[i - 1][1]

\* the elements of the path whose policy is not in the graph
WithoutPolicy ==
    {i \in 1..Len(args.route) :
        ~has_policy_for_node(channel_db, args.route[i][2], PolicyNode(i))}

(* C28: create_route_from_path raises an exception on the path None; it     *)
(* raises NoChannelPolicy with the scid of the first element whose policy   *)
(* from the previous node is not in the graph, and returns no route then;   *)
(* otherwise the route has one edge per element of the path, with the node  *)
(* and scid of the element and the fees and cltv_expiry_delta of the policy *)
(* the previous node has for that scid.                                     *)
CreateRouteErrors ==
    CreateRouteCalled =>
        IF args.ints[2] = 1 THEN result[1] = "Exception" /\ result[3] = <<>>
        ELSE IF WithoutPolicy # {}
        THEN /\ result[1] = "NoChannelPolicy"
             /\ \E i \in WithoutPolicy :
                   /\ \A j \in WithoutPolicy : i <= j
                   /\ result[2] = args.route[i][2]
             /\ result[3] = <<>>
        ELSE /\ result[1] = "return"
             /\ Len(result[3]) = Len(args.route)
             /\ \A i \in 1..Len(args.route) :
                   LET pol == get_policy_for_node(channel_db, args.route[i][2], PolicyNode(i))
                       e == result[3][i]
                   IN  /\ e.node_id = args.route[i][1]
                       /\ e.short_channel_id = args.route[i][2]
                       /\ e.fee_base_msat = pol.fee_base_msat
                       /\ e.fee_proportional_millionths = pol.fee_proportional_millionths
                       /\ e.cltv_expiry_delta = pol.cltv_expiry_delta

\* the first element has a policy and the second has none: nothing of the
\* route is returned
SecondPolicyMissing ==
    /\ CreateRouteCalled
    /\ Len(args.route) >= 2
    /\ 1 \notin WithoutPolicy
    /\ 2 \in WithoutPolicy
    /\ result = <<"NoChannelPolicy", args.route[2][2], <<>>>>

-----------------------------------------------------------------------------
(* clear_blacklist *)

(* C29: after add_to_blacklist calls followed by clear_blacklist() the      *)
(* blacklist is empty, and the path find_path_for_payment then returns is   *)
(* the one a finder with a never-modified blacklist returns for the query.  *)
ClearBlacklistRestores ==
    args.fn = "clear_blacklist" =>
        /\ blacklist = {}
        /\ pc = "done" =>
              path = run_alone(channel_db, {}, fresh_search(nodeA, nodeB, invoice_amount_msat)).path

-----------------------------------------------------------------------------
(* termination of get_distances *)

Searching == pc \in {"while", "for", "edge"}

\* the entries a step puts into the queue
Enqueued == nodes_to_explore' \ nodes_to_explore

\* the loop is left at line 207 or at the break of line 210, and there only
LoopEnds ==
    /\ pc = "while" /\ nodes_to_explore = {} => pc' = "returned"
    /\ pc = "while" /\ pc' = "returned" =>
          \/ nodes_to_explore = {}
          \/ nodeA # NoNode /\ cur' \in nodes_to_explore /\ cur'[3] = nodeA

\* an entry is put into the queue only with a distance strictly below the
\* node's, which becomes the node's distance
EnqueueLowers ==
    Searching =>
        \A e \in Enqueued :
           /\ CostLess(e[1], Dist(distance_from_start, e[3]))
           /\ Dist(distance_from_start', e[3]) = e[1]

(* C30: get_distances terminates: a search that has started reaches its     *)
(* return (or an exception); the loop is left when the queue is empty or,   *)
(* with a source given, when the source is popped, and not otherwise; an    *)
(* entry is enqueued only when it strictly lowers the distance of its node. *)
Termination ==
    /\ Searching ~> pc \in {"returned", "raised"}
    /\ [][LoopEnds /\ EnqueueLowers]_vars

\* a search without a source has re-enqueued a node at a lower distance and
\* come to its end on the empty queue
SourcelessSearchEnded ==
    /\ pc = "returned"
    /\ nodeA = NoNode
    /\ nodes_to_explore = {}
    /\ \E n \in DOMAIN distance_from_start : n # nodeB /\ cur[3] = n /\ cur[1] # distance_from_start[n]

-----------------------------------------------------------------------------
(* finalization of expanded nodes *)

\* the nodes the running search has popped with their current distance
ExpandedNodes == {expanded[i][3] : i \in DOMAIN expanded}

\* the expanded nodes whose for loop is over
Finalized ==
    {expanded[i][3] : i \in {j \in DOMAIN expanded : j < Len(expanded) \/ pc \notin {"for", "edge"}}}

\* the step belongs to the search the state is in
SameSearch ==
    /\ Len(expanded') >= Len(expanded)
    /\ SubSeq(expanded', 1, Len(expanded)) = expanded

\* the step pops an entry and starts the for loop over its node's channels
Expands == expanded' # expanded /\ SameSearch

FinalizationStep ==
    SameSearch =>
        /\ \A v \in Finalized :
              /\ Dist(distance_from_start', v) = Dist(distance_from_start, v)
              /\ (v \in DOMAIN prev_node') = (v \in DOMAIN prev_node)
              /\ v \in DOMAIN prev_node => prev_node'[v] = prev_node[v]
        /\ pc = "while" /\ cur' # cur /\ cur'[3] \in ExpandedNodes => pc' \in {"while", "returned"}
        /\ Expands =>
              /\ cur'[3] \notin ExpandedNodes
              /\ expanded # <<>> => CostLeq(expanded[Len(expanded)][1], cur'[1])

(* C31: once a node was popped with its current distance and its channels   *)
(* were relaxed, its distance and its predecessor entry stay as they are    *)
(* for the rest of the search; a later queue entry of the node is discarded *)
(* at its pop; no node is expanded twice, and the expanded nodes are popped *)
(* in non-decreasing order of distance.                                     *)
Finalization == [][FinalizationStep]_vars

\* a duplicate entry of a finalized node has been popped and discarded
StaleEntryDiscarded ==
    /\ pc = "while"
    /\ cur[3] \in Finalized
    /\ cur[1] # distance_from_start[cur[3]]
    /\ Len(expanded) >= 2

-----------------------------------------------------------------------------
(* the destination is the root of the search *)

\* get_distances is running or has just returned its map
InSearch == pc \in {"while", "for", "edge", "returned"}

(* C32: in every state of a search the distance of the destination is 0 and *)
(* prev_node, also the returned one, has no entry for the destination.      *)
DestinationIsRoot ==
    InSearch =>
        /\ nodeB \in DOMAIN distance_from_start
        /\ distance_from_start[nodeB] = Cost(0, 0)
        /\ nodeB \notin DOMAIN prev_node

\* the search has returned after it expanded a neighbour of the destination
\* that has a channel back to it
NeighbourOfDestinationExpanded ==
    /\ pc = "returned"
    /\ prev_node # Empty
    /\ \E i \in 2..Len(expanded) :
          \E c \in DOMAIN channel_db.info :
             /\ c \notin blacklist
             /\ Endpoints(channel_db, c) = {expanded[i][3], nodeB}

-----------------------------------------------------------------------------
(* prev_node is a tree *)

\* get_path's walk from u along prev_node
WalkFrom(u) == get_path_loop(u, nodeB, prev_node, Cardinality(DOMAIN prev_node))

(* C33: in every state of a search, for every entry prev_node[u] = (v, scid) *)
(* the channel scid joins u and v, the distance of v plus 500 is at most    *)
(* the distance of u, and the entries followed from u lead to the           *)
(* destination without a node met twice and without a missing key; so       *)
(* get_path on the returned map returns.                                    *)
PredecessorTree ==
    InSearch =>
        /\ \A u \in DOMAIN prev_node :
              LET v == prev_node[u][1]
                  scid == prev_node[u][2]
              IN  /\ has_channel_info(channel_db, scid)
                  /\ Endpoints(channel_db, scid) = {u, v}
                  /\ u # v
                  /\ CostLeq(CostAdd(Dist(distance_from_start, v), Cost(base_cost, 0)),
                             Dist(distance_from_start, u))
                  /\ WalkFrom(u).end = "return"
                  /\ Len(WalkFrom(u).elems) <= Cardinality(DOMAIN prev_node)
                  /\ \A i, j \in 1..Len(WalkFrom(u).elems) :
                        i # j => WalkFrom(u).elems[i][1] # WalkFrom(u).elems[j][1]
        /\ pc = "returned" => get_path(nodeA, nodeB, prev_node).end = "return"

\* an entry was replaced by a cheaper one and the walk from a node takes
\* three entries
DeepTreeReturned ==
    /\ pc = "returned"
    /\ \E u \in DOMAIN prev_node : Len(WalkFrom(u).elems) >= 3
    /\ \E e \in nodes_to_explore \cup {cur} :
          e[3] \in DOMAIN prev_node /\ e[1] # distance_from_start[e[3]]

-----------------------------------------------------------------------------
(* the amount carried by the queue entries *)

\* the fee of the edge prev_node gives u, on the amount that arrives at its
\* far end; the policy is the one _edge_cost is called with (lines 233-234)
ChainFee(u, amount_msat) ==
    LET v == prev_node[u][1]
        pol == get_policy_for_node(channel_db, prev_node[u][2],
                                   cost_start_node(is_source, u, v))
    IN  fee_for_edge_msat(amount_msat, pol.fee_base_msat, pol.fee_proportional_millionths)

\* the invoice amount plus the fees of the entries from u to the destination,
\* each on the amount accumulated nearer the destination
RECURSIVE ChainAmount(_, _)
ChainAmount(u, fuel) ==
    IF u = nodeB \/ u \notin DOMAIN prev_node \/ fuel = 0 THEN invoice_amount_msat
    ELSE LET nearer == ChainAmount(prev_node[u][1], fuel - 1)
         IN  nearer + ChainFee(u, nearer)

(* C34: a node is expanded with the invoice amount plus the fees of the     *)
(* edges of its predecessor chain to the destination, the fee of each edge  *)
(* taken on the amount accumulated over the edges nearer the destination.   *)
AmountTracking ==
    InSearch =>
        \A i \in DOMAIN expanded :
           expanded[i][2] = ChainAmount(expanded[i][3], Cardinality(DOMAIN prev_node))

\* a node two paying edges away from the destination has been expanded
FeesOfTwoEdgesCarried ==
    /\ InSearch
    /\ \E i \in DOMAIN expanded :
          LET u == expanded[i][3]
          IN  /\ Len(WalkFrom(u).elems) >= 2
              /\ ChainFee(u, ChainAmount(prev_node[u][1], 1)) > 0
              /\ ChainAmount(prev_node[u][1], 1) > invoice_amount_msat
              /\ expanded[i][2] > ChainAmount(prev_node[u][1], 1)

-----------------------------------------------------------------------------
(* completeness of the search *)

(* C35: find_path_for_payment returns None only if no path from the source  *)
(* to the destination has all its edges admissible at the amounts forwarded *)
(* through them.                                                            *)
Completeness ==
    pc = "done" /\ path.is_none /\ nodeA # nodeB =>
        \A q \in SimplePaths(channel_db, nodeA, nodeB) : IsInf(PathCost(q))

-----------------------------------------------------------------------------
(* a payment to the source itself *)

ToItself == nodeA # NoNode /\ nodeA = nodeB

(* C36: find_path_for_payment(A, A, amount) stops at the first pop, with an *)
(* empty prev_node, and returns None: no empty path and no cycle through A. *)
SelfPaymentIsNone ==
    ToItself =>
        /\ pc \notin {"for", "edge"}
        /\ prev_node = Empty
        /\ expanded = <<>>
        /\ pc = "returned" => nodes_to_explore = {} /\ cur[3] = nodeA
        /\ pc = "done" => path = NonePath
        /\ exc \notin {"AssertionError", "AttributeError", "KeyError", "loops"}

\* None was returned for a payment from a node to itself, on a graph with a
\* cycle through the node
SelfPaymentOnCycle ==
    /\ ToItself
    /\ pc = "done"
    /\ path = NonePath
    /\ \E q \in SimplePaths(channel_db, nodeA, LastNode(channel_db)) :
          \E r \in SimplePaths(channel_db, nodeA, LastNode(channel_db)) :
             /\ q # <<>> /\ r # <<>>
             /\ \A i \in 1..Len(q), j \in 1..Len(r) : q[i][2] # r[j][2]
             /\ ~IsInf(PathCostFrom(channel_db, nodeA, q, 1, invoice_amount_msat, Empty, {}))

-----------------------------------------------------------------------------
(* local channels *)

\* the caller's node is an end of each of its local channels
OwnChannelsOnly ==
    \A c \in DOMAIN my_channels :
       has_channel_info(channel_db, c) /\ nodeA \in Endpoints(channel_db, c)

\* the for loop is about to look at a local channel (lines 217-222)
LocalChannelMet ==
    /\ pc = "for"
    /\ todo # <<>>
    /\ Head(todo) \in DOMAIN my_channels
    /\ has_channel_info(channel_db, Head(todo))

\* the start node line 221 gives the channel the for loop is about to look at
NextStartNode == edge_startnode_of(get_channel_info(channel_db, Head(todo)), cur[3])

\* lines 226-230 are reached for it: the assertion, then can_receive
IncomingBranch == NextStartNode # nodeA

(* C37: in find_path_for_payment from A to another node, with local         *)
(* channels that all have A as an end, every local channel the search meets *)
(* has A as its start node: the branch of lines 226-230 is not reached,     *)
(* the assertion does not fail and can_receive is not called.               *)
LocalChannelsLeaveSource ==
    nodeA # NoNode /\ nodeA # nodeB /\ OwnChannelsOnly =>
        /\ LocalChannelMet => ~IncomingBranch
        /\ exc # "AssertionError"

\* a local channel of the source is met while its other end is expanded, in
\* a search that has another local channel of the source still to come
OwnChannelMet ==
    /\ nodeA # NoNode /\ nodeA # nodeB /\ OwnChannelsOnly
    /\ LocalChannelMet
    /\ cur[3] # nodeB
    /\ Cardinality(DOMAIN my_channels) >= 2

-----------------------------------------------------------------------------
(* cache entries under construction *)

(* C38: no caller of get_prev_nodes_to_beacons is returned the maps of a    *)
(* key without a predecessor map for each of the current beacons, whether   *)
(* its lookup comes while another call fills the key or after a call that   *)
(* failed midway.                                                           *)
NoPartialEntryReturned ==
    /\ pc = "beacons_done" /\ beacon_call # NotLoadedCall =>
          DOMAIN ReturnedMaps = BeaconSet
    /\ args.fn = "get_prev_nodes_to_beacons" => result[2] = BeaconSet

-----------------------------------------------------------------------------
(* the shape of the paths to the beacons *)

\* the channels that join source_id to the beacon directly
DirectChannels(source_id, beacon_id) ==
    {c \in DOMAIN channel_db.info : Endpoints(channel_db, c) = {source_id, beacon_id}}

(* C39: every path get_paths_to_beacons(amount_sat, source_id) returns ends *)
(* at its beacon, visits no node twice and does not come back to source_id; *)
(* a beacon that is a neighbour of source_id gets the one-hop path          *)
(* [(beacon, scid)]. Stated for a graph and a blacklist left untouched.     *)
BeaconPathsSimple ==
    pc = "paths_done" /\ writes = 0 /\ blacklist = {} =>
        LET source_id == args.ints[1]
        IN  /\ \A k \in DOMAIN result :
                  LET p == result[k]
                  IN  /\ p[Len(p)][1] = k[1]
                      /\ \A i \in 1..Len(p) : p[i][1] # source_id
                      /\ \A i, j \in 1..Len(p) : i # j => p[i][1] # p[j][1]
            /\ \A beacon_id \in DOMAIN ReturnedMaps :
                  beacon_id # source_id =>
                     \A c \in DirectChannels(source_id, beacon_id) :
                        /\ <<beacon_id, c>> \in DOMAIN result
                        /\ result[<<beacon_id, c>>] = <<<<beacon_id, c>>>>

====
